---------------------------- MODULE Spec2Model ----------------------------
(***************************************************************************)
(* A model of slidy's slide-description language front end: the lexer      *)
(* (src/parser/lexer.rs), its directive handlers (src/parser/utils.rs)     *)
(* and the parse_text / parse_file entry points (src/parser/mod.rs).       *)
(*                                                                         *)
(* Conventions                                                             *)
(*  - Option<T> is a sequence of length at most one: None == <<>>,         *)
(*    Some(x) == <<x>>.                                                    *)
(*  - A Rust &str / String is a sequence of one-character strings.         *)
(*  - An f32 is an integer count of 1/Unit (fixed point); the rounding of  *)
(*    f32 arithmetic is not modelled.                                      *)
(*  - A handler is an operator from (lexer, tokens after the directive) to *)
(*    [res, skip, lexer]: res is "Ok", "Err" or "Panic", skip the number   *)
(*    of argument tokens consumed and lexer the lexer as the handler       *)
(*    leaves it (handlers mutate the lexer in place, so the assignments    *)
(*    made before an Err or a panic stay).                                 *)
(***************************************************************************)
EXTENDS Integers, Sequences, FiniteSets, TLC

----------------------------------------------------------------------------
(* Bounds of the model.                                                    *)

\* Tokens handed to the top-level lexer over its whole life.
MaxTokens == 6

\* Nesting depth of parse_file calls (1 = the top-level lexer alone).
MaxDepth == 4

----------------------------------------------------------------------------
(* Option, strings, numbers.                                               *)

None == <<>>

Some(x) == <<x>>

IsSome(o) == o # <<>>

Unwrap(o) == o[1]

\* One unit of the fixed-point representation of f32: 1.0 == Unit.
Unit == 10000

F32(n) == n * Unit

\* str::replace("\\:", ":"): every non-overlapping occurrence, left to right.
RECURSIVE ReplaceEscapedColon(_)
ReplaceEscapedColon(s) ==
    IF s = <<>> THEN <<>>
    ELSE IF Len(s) >= 2 /\ s[1] = "\\" /\ s[2] = ":"
         THEN <<":">> \o ReplaceEscapedColon(SubSeq(s, 3, Len(s)))
         ELSE <<s[1]>> \o ReplaceEscapedColon(Tail(s))

----------------------------------------------------------------------------
(* Tokens (tokenizer.rs, Structure and Token).  The span of a token is     *)
(* used for diagnostics only and is left out.                              *)

Directives ==
    {"Generic", "Fontcolor", "BackGroundColor", "Slide", "Size",
     "TextBuffer", "Position", "Figure", "Rotation", "Import"}

Structure == Directives \cup {"TextLine", "Comment", "String", "Number"}

Token(sym) == [symbol |-> sym, text |-> <<>>, num |-> 0]

TextLine(s) == [symbol |-> "TextLine", text |-> s, num |-> 0]

Comment(s) == [symbol |-> "Comment", text |-> s, num |-> 0]

String(s) == [symbol |-> "String", text |-> s, num |-> 0]

Number(v) == [symbol |-> "Number", text |-> <<>>, num |-> v]

\* tokens.get(0..n): Some(first n tokens) when there are n, else None.
Get(tokens, n) == IF Len(tokens) >= n THEN Some(SubSeq(tokens, 1, n)) ELSE None

----------------------------------------------------------------------------
(* The document model (slideshow.rs).                                      *)

Vec2(x, y) == [x |-> x, y |-> y]

Color(r, g, b, a) == [r |-> r, g |-> g, b |-> b, a |-> a]

SectionText == [kind |-> "Text", text |-> <<>>, color |-> None, font |-> None]

SectionFigure(path) == [kind |-> "Figure", path |-> path, rotation |-> 0]

Section == [size |-> None, position |-> None, sec_main |-> None]

Slide == [bg_color |-> None, sections |-> <<>>]

Slideshow ==
    [slides |-> <<>>, fonts |-> {}, bg_col |-> None, font_col |-> None,
     font_size |-> None]

----------------------------------------------------------------------------
(* The lexer (lexer.rs).                                                   *)

CurrentState == {"General", "Slide", "Figure", "Text", "Import", "None"}

\* Lexer::new: the default lexer with a base folder.
Lexer == [state |-> "None", slide |-> None, slideshow |-> Slideshow]

Ok(lexer, skip) == [res |-> "Ok", skip |-> skip, lexer |-> lexer]

Err(lexer) == [res |-> "Err", skip |-> 0, lexer |-> lexer]

Panic(lexer) == [res |-> "Panic", skip |-> 0, lexer |-> lexer]

SetState(lexer, s) == [lexer EXCEPT !.state = s]

\* The open slide with its last section replaced by sec.
WithLastSection(lexer, sec) ==
    LET slide == Unwrap(lexer.slide)
        n == Len(slide.sections)
    IN [lexer EXCEPT !.slide = Some([slide EXCEPT !.sections[n] = sec])]

LastSection(lexer) ==
    LET slide == Unwrap(lexer.slide) IN slide.sections[Len(slide.sections)]

PushSection(lexer, sec) ==
    LET slide == Unwrap(lexer.slide)
    IN [lexer EXCEPT
          !.slide = Some([slide EXCEPT !.sections = Append(@, sec)])]

----------------------------------------------------------------------------
(* The file system the parser reads: the paths that exist, and for the     *)
(* slide files their tokens (tokenizer(read_to_string(file))).  All files  *)
(* live in the base folder.                                                *)

\* Existing files that are no slide files (images).
FigureFiles == {<<"i">>}

\* B.txt: two slides, the first with one text section, the second empty
\* with a background color.
FileB ==
    <<Token("Generic"), Token("Fontcolor"), Number(F32(2)), Number(F32(2)),
      Number(F32(2)), Number(F32(2)),
      Token("Slide"), Token("TextBuffer"), TextLine(<<"b">>),
      Token("Slide"), Token("BackGroundColor"), String(<<"r", "e", "d">>)>>

\* N.txt: one slide, then imports B.txt, then one more slide.
FileN ==
    <<Token("Slide"), Token("Import"), String(<<"B">>), Token("Slide"),
      Token("TextBuffer")>>

\* K.txt: one slide, then a directive that fails.
FileK == <<Token("Slide"), Token("Rotation"), Number(F32(1))>>

\* M.txt: one slide, then imports K.txt.
FileM == <<Token("Slide"), Token("Import"), String(<<"K">>)>>

\* S.txt: one slide, then imports S.txt.
FileS == <<Token("Slide"), Token("Import"), String(<<"S">>)>>

\* P.txt imports Q.txt, and Q.txt, after one slide, imports P.txt.
FileP == <<Token("Import"), String(<<"Q">>)>>

FileQ == <<Token("Slide"), Token("Import"), String(<<"P">>)>>

SlideFiles ==
    (<<"B">> :> FileB) @@ (<<"N">> :> FileN) @@ (<<"K">> :> FileK)
      @@ (<<"M">> :> FileM) @@ (<<"S">> :> FileS) @@ (<<"P">> :> FileP)
      @@ (<<"Q">> :> FileQ)

Exists(path) == path \in FigureFiles \/ path \in DOMAIN SlideFiles

BaseFolder == <<"/">>

\* base_folder.join(el).canonicalize(): Some(absolute path) when the file
\* exists, None (an io::Error) when it does not.
Canonicalize(el) == IF Exists(el) THEN Some(BaseFolder \o el) ELSE None

----------------------------------------------------------------------------
(* Argument readers (utils.rs).                                            *)

IsNumber(t) == t.symbol = "Number"

IsString(t) == t.symbol = "String"

\* extract_u8 without the range test: `v as u8` saturates.
extract_u8_unranged(t) ==
    IF IsNumber(t) /\ t.num % Unit = 0
    THEN Some(IF t.num < 0 THEN 0
              ELSE IF t.num \div Unit > 255 THEN 255
              ELSE t.num \div Unit)
    ELSE None

\* extract_u8: Some(channel) for a Number that is integral and in 0..=255.
extract_u8(t) ==
    IF IsNumber(t) /\ t.num % Unit = 0 /\ t.num \div Unit \in 0..255
    THEN Some(t.num \div Unit)
    ELSE None

HexLower ==
    <<"0", "1", "2", "3", "4", "5", "6", "7", "8", "9",
      "a", "b", "c", "d", "e", "f">>

HexUpper == <<"A", "B", "C", "D", "E", "F">>

IsHex(c) ==
    \/ \E i \in 1..16 : HexLower[i] = c
    \/ \E i \in 1..6 : HexUpper[i] = c

HexVal(c) ==
    IF \E i \in 1..16 : HexLower[i] = c
    THEN (CHOOSE i \in 1..16 : HexLower[i] = c) - 1
    ELSE (CHOOSE i \in 1..6 : HexUpper[i] = c) + 9

\* u8::from_str_radix(&s[i..i+2], 16), 0-based i.
HexPair(s, i) == 16 * HexVal(s[i + 1]) + HexVal(s[i + 2])

UpperCase ==
    <<"A", "B", "C", "D", "E", "F", "G", "H", "I", "J", "K", "L", "M",
      "N", "O", "P", "Q", "R", "S", "T", "U", "V", "W", "X", "Y", "Z">>

LowerCase ==
    <<"a", "b", "c", "d", "e", "f", "g", "h", "i", "j", "k", "l", "m",
      "n", "o", "p", "q", "r", "s", "t", "u", "v", "w", "x", "y", "z">>

ToLowerChar(c) ==
    IF \E i \in 1..26 : UpperCase[i] = c
    THEN LowerCase[CHOOSE i \in 1..26 : UpperCase[i] = c]
    ELSE c

to_lowercase(s) == [i \in 1..Len(s) |-> ToLowerChar(s[i])]

NamedColors ==
    {[name |-> <<"a", "c", "q", "u", "a">>, color |-> Color(0, 255, 255, 255)],
     [name |-> <<"b", "l", "a", "c", "k">>, color |-> Color(0, 0, 0, 255)],
     [name |-> <<"b", "l", "u", "e">>, color |-> Color(0, 0, 255, 255)],
     [name |-> <<"f", "u", "c", "h", "s", "i", "a">>, color |-> Color(255, 0, 255, 255)],
     [name |-> <<"g", "r", "a", "y">>, color |-> Color(128, 128, 128, 255)],
     [name |-> <<"g", "r", "e", "e", "n">>, color |-> Color(0, 128, 0, 255)],
     [name |-> <<"l", "i", "m", "e">>, color |-> Color(0, 255, 0, 255)],
     [name |-> <<"m", "a", "r", "o", "o", "n">>, color |-> Color(128, 0, 0, 255)],
     [name |-> <<"n", "a", "v", "y">>, color |-> Color(0, 0, 128, 255)],
     [name |-> <<"o", "l", "i", "v", "e">>, color |-> Color(128, 128, 0, 255)],
     [name |-> <<"p", "u", "r", "p", "l", "e">>, color |-> Color(128, 0, 128, 255)],
     [name |-> <<"r", "e", "d">>, color |-> Color(255, 0, 0, 255)],
     [name |-> <<"s", "i", "l", "v", "e", "r">>, color |-> Color(192, 192, 192, 255)],
     [name |-> <<"t", "e", "a", "l">>, color |-> Color(0, 128, 128, 255)],
     [name |-> <<"w", "h", "i", "t", "e">>, color |-> Color(255, 255, 255, 255)],
     [name |-> <<"y", "e", "l", "l", "o", "w">>, color |-> Color(255, 255, 0, 255)]}

\* match_string_color that takes the first 8 of 8 or more digits.
match_string_color_long(color_str) ==
    IF color_str # <<>> /\ color_str[1] = "#"
    THEN LET hex == Tail(color_str)
         IN IF \E i \in 1..Len(hex) : ~IsHex(hex[i]) THEN None
            ELSE IF Len(hex) >= 8
                 THEN Some(Color(HexPair(hex, 0), HexPair(hex, 2),
                                 HexPair(hex, 4), HexPair(hex, 6)))
                 ELSE None
    ELSE LET lower == to_lowercase(color_str)
         IN IF \E e \in NamedColors : e.name = lower
            THEN Some((CHOOSE e \in NamedColors : e.name = lower).color)
            ELSE None

\* match_string_color: Some(color) or None (an error).
match_string_color(color_str) ==
    IF color_str # <<>> /\ color_str[1] = "#"
    THEN LET hex == Tail(color_str)
         IN IF \E i \in 1..Len(hex) : ~IsHex(hex[i]) THEN None
            ELSE IF Len(hex) = 8
                 THEN Some(Color(HexPair(hex, 0), HexPair(hex, 2),
                                 HexPair(hex, 4), HexPair(hex, 6)))
                 ELSE None
    ELSE LET lower == to_lowercase(color_str)
         IN IF \E e \in NamedColors : e.name = lower
            THEN Some((CHOOSE e \in NamedColors : e.name = lower).color)
            ELSE None

\* get_color that reads the four numbers as (b, g, r, a).
get_color_bgra(tokens) ==
    LET four == Get(tokens, 4)
        chan == IF IsSome(four)
                THEN [i \in 1..4 |-> extract_u8(Unwrap(four)[i])]
                ELSE <<>>
        res == IF IsSome(four) /\ \A i \in 1..4 : IsSome(chan[i])
               THEN Some(Color(Unwrap(chan[3]), Unwrap(chan[2]),
                               Unwrap(chan[1]), Unwrap(chan[4])))
               ELSE None
    IN IF IsSome(res)
       THEN [ok |-> TRUE, color |-> Unwrap(res), skip |-> 4]
       ELSE IF tokens # <<>> /\ IsString(tokens[1])
                 /\ IsSome(match_string_color(tokens[1].text))
            THEN [ok |-> TRUE,
                  color |-> Unwrap(match_string_color(tokens[1].text)),
                  skip |-> 1]
            ELSE [ok |-> FALSE, color |-> Color(0, 0, 0, 0), skip |-> 0]

\* get_color: [ok, color, skip].
get_color(tokens) ==
    LET four == Get(tokens, 4)
        chan == IF IsSome(four)
                THEN [i \in 1..4 |-> extract_u8(Unwrap(four)[i])]
                ELSE <<>>
        res == IF IsSome(four) /\ \A i \in 1..4 : IsSome(chan[i])
               THEN Some(Color(Unwrap(chan[1]), Unwrap(chan[2]),
                               Unwrap(chan[3]), Unwrap(chan[4])))
               ELSE None
    IN IF IsSome(res)
       THEN [ok |-> TRUE, color |-> Unwrap(res), skip |-> 4]
       ELSE IF tokens # <<>> /\ IsString(tokens[1])
                 /\ IsSome(match_string_color(tokens[1].text))
            THEN [ok |-> TRUE,
                  color |-> Unwrap(match_string_color(tokens[1].text)),
                  skip |-> 1]
            ELSE [ok |-> FALSE, color |-> Color(0, 0, 0, 0), skip |-> 0]

\* v / 10.0 * 0.012 and v / 10.0 * 0.06 in fixed point.
ScalarX(v) == ((v \div 10) * 120) \div Unit

ScalarY(v) == ((v \div 10) * 600) \div Unit

\* get_size that takes a single number as both x and y, unscaled.
get_size_unscaled(tokens) ==
    LET bad == [ok |-> FALSE, size |-> Vec2(0, 0), skip |-> 0]
        scalar(v) == [ok |-> TRUE, size |-> Vec2(v, v), skip |-> 1]
    IN IF IsSome(Get(tokens, 2))
       THEN IF ~IsNumber(tokens[1]) THEN bad
            ELSE IF IsNumber(tokens[2])
                 THEN [ok |-> TRUE,
                       size |-> Vec2(tokens[1].num, tokens[2].num),
                       skip |-> 2]
                 ELSE scalar(tokens[1].num)
       ELSE IF tokens # <<>>
            THEN IF IsNumber(tokens[1]) THEN scalar(tokens[1].num) ELSE bad
            ELSE bad

\* get_size: [ok, size, skip].
get_size(tokens) ==
    LET bad == [ok |-> FALSE, size |-> Vec2(0, 0), skip |-> 0]
        scalar(v) ==
            [ok |-> TRUE, size |-> Vec2(ScalarX(v), ScalarY(v)), skip |-> 1]
    IN IF IsSome(Get(tokens, 2))
       THEN IF ~IsNumber(tokens[1]) THEN bad
            ELSE IF IsNumber(tokens[2])
                 THEN [ok |-> TRUE,
                       size |-> Vec2(tokens[1].num, tokens[2].num),
                       skip |-> 2]
                 ELSE scalar(tokens[1].num)
       ELSE IF tokens # <<>>
            THEN IF IsNumber(tokens[1]) THEN scalar(tokens[1].num) ELSE bad
            ELSE bad

----------------------------------------------------------------------------
(* Directive handlers (utils.rs).                                          *)
(*                                                                         *)
(* `slide.sections.len() - 1` on an open slide without sections: with      *)
(* overflow checks (the debug profile) the subtraction panics; without     *)
(* (the release profile) it wraps to usize::MAX and the next               *)
(* `sections[last_section]` panics.  Only manage_size runs fallible code   *)
(* (get_size) between the two.                                             *)

\* The build: TRUE when integer overflow is checked.
VARIABLE overflow_checks

\* manage_slide that forgets to push the slide it replaces.
manage_slide_dropping(lexer, tokens) ==
    Ok(SetState([lexer EXCEPT !.slide = Some(Slide)], "Slide"), 0)

\* manage_slide that tells read_tokens to skip the token after :sl.
manage_slide_skipping(lexer, tokens) ==
    LET opened ==
          IF lexer.slide = None
          THEN [lexer EXCEPT !.slide = Some(Slide)]
          ELSE [lexer EXCEPT
                  !.slideshow.slides = Append(@, Unwrap(lexer.slide)),
                  !.slide = Some(Slide)]
    IN Ok(SetState(opened, "Slide"), 1)

\* manage_slide: flush the open slide, open a new one.
manage_slide(lexer, tokens) ==
    LET opened ==
          IF lexer.slide = None
          THEN [lexer EXCEPT !.slide = Some(Slide)]
          ELSE [lexer EXCEPT
                  !.slideshow.slides = Append(@, Unwrap(lexer.slide)),
                  !.slide = Some(Slide)]
    IN Ok(SetState(opened, "Slide"), 0)

\* manage_textline that pushes the line as it is, escapes included.
manage_textline_verbatim(lexer, el, tokens) ==
    IF lexer.state # "Text"
    THEN IF el = <<>> THEN Ok(lexer, 0) ELSE Err(lexer)
    ELSE IF lexer.slide = None THEN Err(lexer)
    ELSE IF Unwrap(lexer.slide).sections = <<>> THEN Panic(lexer)
    ELSE LET sec == LastSection(lexer)
             main == Unwrap(sec.sec_main)
         IN IF main.kind # "Text" THEN Err(lexer)
            ELSE Ok(WithLastSection(lexer,
                      [sec EXCEPT
                         !.sec_main =
                            Some([main EXCEPT
                                    !.text = @ \o el \o <<"\n">>])]),
                    0)

\* manage_textline that ignores every text line outside a text section.
manage_textline_lenient(lexer, el, tokens) ==
    IF lexer.state # "Text"
    THEN Ok(lexer, 0)
    ELSE IF lexer.slide = None THEN Err(lexer)
    ELSE IF Unwrap(lexer.slide).sections = <<>> THEN Panic(lexer)
    ELSE LET sec == LastSection(lexer)
         IN IF sec.sec_main = None THEN Err(lexer)
            ELSE IF Unwrap(sec.sec_main).kind # "Text" THEN Err(lexer)
            ELSE LET main == Unwrap(sec.sec_main)
                     text == main.text \o ReplaceEscapedColon(el) \o <<"\n">>
                 IN Ok(WithLastSection(lexer,
                         [sec EXCEPT
                            !.sec_main = Some([main EXCEPT !.text = text])]),
                       0)

\* manage_textline.
manage_textline(lexer, el, tokens) ==
    IF lexer.state # "Text"
    THEN IF el = <<>> THEN Ok(lexer, 0) ELSE Err(lexer)
    ELSE IF lexer.slide = None THEN Err(lexer)
    ELSE IF Unwrap(lexer.slide).sections = <<>> THEN Panic(lexer)
    ELSE LET sec == LastSection(lexer)
         IN IF sec.sec_main = None THEN Err(lexer)
            ELSE IF Unwrap(sec.sec_main).kind # "Text" THEN Err(lexer)
            ELSE LET main == Unwrap(sec.sec_main)
                     text == main.text \o ReplaceEscapedColon(el) \o <<"\n">>
                 IN Ok(WithLastSection(lexer,
                         [sec EXCEPT
                            !.sec_main = Some([main EXCEPT !.text = text])]),
                       0)

\* manage_textbuffer that opens a slide when none is open.
manage_textbuffer_opening(lexer, tokens) ==
    LET l1 == SetState(lexer, "Text")
        l2 == IF l1.slide = None THEN [l1 EXCEPT !.slide = Some(Slide)] ELSE l1
    IN Ok(PushSection(l2, [Section EXCEPT !.sec_main = Some(SectionText)]), 0)

\* manage_textbuffer turning the last section of the open slide into the
\* text buffer when there is one.
manage_textbuffer_reusing(lexer, tokens) ==
    LET l1 == SetState(lexer, "Text")
    IN IF l1.slide = None THEN Err(l1)
       ELSE IF Unwrap(l1.slide).sections = <<>>
       THEN Ok(PushSection(l1, [Section EXCEPT !.sec_main = Some(SectionText)]),
               0)
       ELSE Ok(WithLastSection(l1, [LastSection(l1) EXCEPT
                                      !.sec_main = Some(SectionText)]),
               0)

\* manage_textbuffer.
manage_textbuffer(lexer, tokens) ==
    LET l1 == SetState(lexer, "Text")
    IN IF l1.slide = None THEN Err(l1)
       ELSE Ok(PushSection(l1, [Section EXCEPT !.sec_main = Some(SectionText)]),
               0)

\* manage_figure that leaves the state of the lexer as it finds it.
manage_figure_unstated(lexer, tokens) ==
    IF tokens = <<>> \/ ~IsString(tokens[1]) THEN Err(lexer)
    ELSE LET figure_path == Canonicalize(tokens[1].text)
         IN IF figure_path = None THEN Panic(lexer)
            ELSE IF lexer.slide = None THEN Err(lexer)
            ELSE Ok(PushSection(lexer,
                      [Section EXCEPT
                         !.sec_main =
                            Some(SectionFigure(Unwrap(figure_path)))]),
                    1)

\* manage_figure.
manage_figure(lexer, tokens) ==
    LET l1 == SetState(lexer, "Figure")
    IN IF tokens = <<>> \/ ~IsString(tokens[1]) THEN Err(l1)
       ELSE LET figure_path == Canonicalize(tokens[1].text)
            IN IF figure_path = None THEN Panic(l1)
               ELSE IF l1.slide = None THEN Err(l1)
               ELSE Ok(PushSection(l1,
                         [Section EXCEPT
                            !.sec_main =
                               Some(SectionFigure(Unwrap(figure_path)))]),
                       1)

\* manage_position that stores the two numbers as (y, x).
manage_position_swapped(lexer, tokens) ==
    IF lexer.state \notin {"Text", "Figure"} THEN Err(lexer)
    ELSE IF lexer.slide = None THEN Err(lexer)
    ELSE IF Get(tokens, 2) = None THEN Err(lexer)
    ELSE IF ~IsNumber(tokens[1]) \/ ~IsNumber(tokens[2]) THEN Err(lexer)
    ELSE IF Unwrap(lexer.slide).sections = <<>> THEN Panic(lexer)
    ELSE Ok(WithLastSection(lexer,
              [LastSection(lexer) EXCEPT
                 !.position = Some(Vec2(tokens[2].num, tokens[1].num))]),
            2)

\* manage_position.
manage_position(lexer, tokens) ==
    IF lexer.state \notin {"Text", "Figure"} THEN Err(lexer)
    ELSE IF lexer.slide = None THEN Err(lexer)
    ELSE IF Get(tokens, 2) = None THEN Err(lexer)
    ELSE IF ~IsNumber(tokens[1]) \/ ~IsNumber(tokens[2]) THEN Err(lexer)
    ELSE IF Unwrap(lexer.slide).sections = <<>> THEN Panic(lexer)
    ELSE Ok(WithLastSection(lexer,
              [LastSection(lexer) EXCEPT
                 !.position = Some(Vec2(tokens[1].num, tokens[2].num))]),
            2)

\* manage_size whose section branch also sets the document's font size.
manage_size_both(lexer, tokens) ==
    LET r == get_size(tokens)
    IN IF lexer.state \in {"Import", "Slide", "None"} THEN Err(lexer)
       ELSE IF lexer.state = "General"
       THEN IF ~r.ok THEN Err(lexer)
            ELSE Ok([lexer EXCEPT !.slideshow.font_size = Some(r.size)],
                    r.skip)
       ELSE IF lexer.slide = None THEN Err(lexer)
       ELSE IF Unwrap(lexer.slide).sections = <<>>
       THEN IF overflow_checks \/ r.ok THEN Panic(lexer) ELSE Err(lexer)
       ELSE IF ~r.ok THEN Err(lexer)
       ELSE Ok([WithLastSection(lexer,
                  [LastSection(lexer) EXCEPT !.size = Some(r.size)])
                  EXCEPT !.slideshow.font_size = Some(r.size)],
               r.skip)

\* manage_size.
manage_size(lexer, tokens) ==
    LET r == get_size(tokens)
    IN IF lexer.state \in {"Import", "Slide", "None"} THEN Err(lexer)
       ELSE IF lexer.state = "General"
       THEN IF ~r.ok THEN Err(lexer)
            ELSE Ok([lexer EXCEPT !.slideshow.font_size = Some(r.size)],
                    r.skip)
       ELSE IF lexer.slide = None THEN Err(lexer)
       ELSE IF Unwrap(lexer.slide).sections = <<>>
       THEN IF overflow_checks \/ r.ok THEN Panic(lexer) ELSE Err(lexer)
       ELSE IF ~r.ok THEN Err(lexer)
       ELSE Ok(WithLastSection(lexer,
                 [LastSection(lexer) EXCEPT !.size = Some(r.size)]),
               r.skip)

\* manage_fontcolor whose General branch sets the background color.
manage_fontcolor_as_bg(lexer, tokens) ==
    LET c == get_color(tokens)
    IN IF lexer.state \in {"Import", "Slide", "Figure", "None"}
       THEN Err(lexer)
       ELSE IF lexer.state = "General"
       THEN IF ~c.ok THEN Err(lexer)
            ELSE Ok([lexer EXCEPT !.slideshow.bg_col = Some(c.color)],
                    c.skip)
       ELSE IF ~c.ok THEN Err(lexer)
       ELSE IF lexer.slide = None THEN Err(lexer)
       ELSE IF Unwrap(lexer.slide).sections = <<>> THEN Panic(lexer)
       ELSE LET sec == LastSection(lexer)
            IN IF sec.sec_main = None THEN Err(lexer)
               ELSE IF Unwrap(sec.sec_main).kind # "Text" THEN Err(lexer)
               ELSE Ok(WithLastSection(lexer,
                         [sec EXCEPT
                            !.sec_main =
                               Some([Unwrap(sec.sec_main) EXCEPT
                                       !.color = Some(c.color)])]),
                       c.skip)

\* manage_fontcolor that falls back to the state General when it fails.
manage_fontcolor_falling_back(lexer, tokens) ==
    LET c == get_color(tokens)
        general == SetState(lexer, "General")
    IN IF lexer.state \in {"Import", "Slide", "Figure", "None"}
       THEN Err(general)
       ELSE IF lexer.state = "General"
       THEN IF ~c.ok THEN Err(general)
            ELSE Ok([lexer EXCEPT !.slideshow.font_col = Some(c.color)],
                    c.skip)
       ELSE IF ~c.ok THEN Err(general)
       ELSE IF lexer.slide = None THEN Err(general)
       ELSE IF Unwrap(lexer.slide).sections = <<>> THEN Panic(lexer)
       ELSE LET sec == LastSection(lexer)
            IN IF sec.sec_main = None THEN Err(general)
               ELSE IF Unwrap(sec.sec_main).kind # "Text" THEN Err(general)
               ELSE Ok(WithLastSection(lexer,
                         [sec EXCEPT
                            !.sec_main =
                               Some([Unwrap(sec.sec_main) EXCEPT
                                       !.color = Some(c.color)])]),
                       c.skip)

\* manage_fontcolor.
manage_fontcolor(lexer, tokens) ==
    LET c == get_color(tokens)
    IN IF lexer.state \in {"Import", "Slide", "Figure", "None"}
       THEN Err(lexer)
       ELSE IF lexer.state = "General"
       THEN IF ~c.ok THEN Err(lexer)
            ELSE Ok([lexer EXCEPT !.slideshow.font_col = Some(c.color)],
                    c.skip)
       ELSE IF ~c.ok THEN Err(lexer)
       ELSE IF lexer.slide = None THEN Err(lexer)
       ELSE IF Unwrap(lexer.slide).sections = <<>> THEN Panic(lexer)
       ELSE LET sec == LastSection(lexer)
            IN IF sec.sec_main = None THEN Err(lexer)
               ELSE IF Unwrap(sec.sec_main).kind # "Text" THEN Err(lexer)
               ELSE Ok(WithLastSection(lexer,
                         [sec EXCEPT
                            !.sec_main =
                               Some([Unwrap(sec.sec_main) EXCEPT
                                       !.color = Some(c.color)])]),
                       c.skip)

\* manage_bg_color whose Slide branch sets the document's background.
manage_bg_color_document(lexer, tokens) ==
    LET c == get_color(tokens)
    IN IF lexer.state \in {"Import", "Text", "Figure", "None"}
       THEN Err(lexer)
       ELSE IF ~c.ok THEN Err(lexer)
       ELSE IF lexer.state = "Slide" /\ lexer.slide = None THEN Err(lexer)
       ELSE Ok([lexer EXCEPT !.slideshow.bg_col = Some(c.color)], c.skip)

\* manage_bg_color.
manage_bg_color(lexer, tokens) ==
    LET c == get_color(tokens)
    IN IF lexer.state \in {"Import", "Text", "Figure", "None"}
       THEN Err(lexer)
       ELSE IF lexer.state = "General"
       THEN IF ~c.ok THEN Err(lexer)
            ELSE Ok([lexer EXCEPT !.slideshow.bg_col = Some(c.color)], c.skip)
       ELSE IF ~c.ok THEN Err(lexer)
       ELSE IF lexer.slide = None THEN Err(lexer)
       ELSE Ok([lexer EXCEPT
                  !.slide = Some([Unwrap(lexer.slide) EXCEPT
                                    !.bg_color = Some(c.color)])],
               c.skip)

\* manage_rotation that does not look at the state.
manage_rotation_stateless(lexer, tokens) ==
    IF lexer.slide = None THEN Err(lexer)
    ELSE IF tokens = <<>> \/ ~IsNumber(tokens[1]) THEN Err(lexer)
    ELSE IF Unwrap(lexer.slide).sections = <<>> THEN Panic(lexer)
    ELSE LET sec == LastSection(lexer)
         IN IF sec.sec_main = None \/ Unwrap(sec.sec_main).kind # "Figure"
            THEN Err(lexer)
            ELSE Ok(WithLastSection(lexer,
                      [sec EXCEPT
                         !.sec_main =
                            Some([Unwrap(sec.sec_main) EXCEPT
                                    !.rotation = tokens[1].num])]),
                    1)

\* manage_rotation.
manage_rotation(lexer, tokens) ==
    IF lexer.state # "Figure" THEN Err(lexer)
    ELSE IF lexer.slide = None THEN Err(lexer)
    ELSE IF tokens = <<>> \/ ~IsNumber(tokens[1]) THEN Err(lexer)
    ELSE IF Unwrap(lexer.slide).sections = <<>> THEN Panic(lexer)
    ELSE LET sec == LastSection(lexer)
         IN IF sec.sec_main = None \/ Unwrap(sec.sec_main).kind # "Figure"
            THEN Err(lexer)
            ELSE Ok(WithLastSection(lexer,
                      [sec EXCEPT
                         !.sec_main =
                            Some([Unwrap(sec.sec_main) EXCEPT
                                    !.rotation = tokens[1].num])]),
                    1)

\* manage_import that does not flush the open slide before the nested parse.
manage_import_unflushed(lexer, tokens) ==
    LET l1 == SetState(lexer, "Import")
    IN IF tokens = <<>> \/ ~IsString(tokens[1]) THEN Err(l1) ELSE Ok(l1, 1)

\* manage_import, up to the call of parse_file: the state is set, the path
\* is read and the open slide is flushed.
manage_import(lexer, tokens) ==
    LET l1 == SetState(lexer, "Import")
    IN IF tokens = <<>> \/ ~IsString(tokens[1]) THEN Err(l1)
       ELSE IF l1.slide = None THEN Ok(l1, 1)
       ELSE Ok([l1 EXCEPT
                  !.slideshow.slides = Append(@, Unwrap(l1.slide)),
                  !.slide = None],
               1)

\* manage_import that takes the defaults of the imported document with its
\* slides.
manage_import_append_defaults(lexer, imported_slides) ==
    [lexer EXCEPT
       !.slideshow =
           [imported_slides EXCEPT !.slides = lexer.slideshow.slides \o @]]

\* manage_import, after parse_file returned Ok(imported_slides).
manage_import_append(lexer, imported_slides) ==
    [lexer EXCEPT !.slideshow.slides = @ \o imported_slides.slides]

\* :ge closing the open slide, as :sl and :im do.
manage_generic_closing(lexer, tokens) ==
    Ok([state |-> "General", slide |-> None,
        slideshow |->
           IF lexer.slide = None THEN lexer.slideshow
           ELSE [lexer.slideshow EXCEPT
                   !.slides = Append(@, Unwrap(lexer.slide))]],
       0)

\* The Generic arm of read_tokens.
manage_generic(lexer, tokens) == Ok(SetState(lexer, "General"), 0)

\* The Comment arm of read_tokens.
manage_comment(lexer, tokens) == Ok(lexer, 0)

\* The String | Number arm that skips the token.
manage_literal_skipped(lexer, tokens) == Ok(lexer, 0)

\* The String | Number arm of read_tokens.
manage_literal(lexer, tokens) == Err(lexer)

\* Lexer::take.
take(lexer) ==
    IF lexer.slide = None THEN lexer.slideshow
    ELSE [lexer.slideshow EXCEPT !.slides = Append(@, Unwrap(lexer.slide))]

\* The number of tokens after the directive that its handler can inspect
\* (the longest tokens.get it makes on the path the lexer's state selects).
LookAhead(sym, l) ==
    CASE sym \in {"Figure", "Import"} -> 1
      [] sym = "Position" ->
           IF l.state \in {"Text", "Figure"} /\ l.slide # None THEN 2 ELSE 0
      [] sym = "Size" ->
           IF l.state = "General" THEN 2
           ELSE IF l.state \in {"Text", "Figure"} /\ l.slide # None
                   /\ (Unwrap(l.slide).sections # <<>> \/ ~overflow_checks)
                THEN 2
                ELSE 0
      [] sym = "Rotation" ->
           IF l.state = "Figure" /\ l.slide # None THEN 1 ELSE 0
      [] sym = "Fontcolor" -> IF l.state \in {"General", "Text"} THEN 4 ELSE 0
      [] sym = "BackGroundColor" ->
           IF l.state \in {"General", "Slide"} THEN 4 ELSE 0
      [] OTHER -> 0

\* Token t can be one more argument of the directive: a Number for :ps, :sz
\* and :rt, a color channel for :fc and :bc.  After a token that cannot, the
\* handler's result no longer depends on what follows.
Collects(sym, t) ==
    CASE sym \in {"Position", "Size", "Rotation"} -> IsNumber(t)
      [] sym \in {"Fontcolor", "BackGroundColor"} -> IsSome(extract_u8(t))
      [] OTHER -> TRUE

----------------------------------------------------------------------------
(* The tokens a caller can hand to the lexer.                              *)

\* An empty line, an indented blank line and a line with escaped colons.
TextLines ==
    {<<>>, <<" ", " ">>, <<" ", "\\", ":", "\\", "\\", ":", " ">>}

Red == <<"r", "e", "d">>

\* The tokens every caller uses: the directives that move the lexer from
\* state to state, and the path of an existing slide file.
Core ==
    {Token("Generic"), Token("Slide"), Token("TextBuffer"), Token("Figure"),
     Token("Import"), String(<<"B">>)}

\* A caller uses the core tokens and those of one family of directives.
Profiles ==
    {"text", "position", "size", "rotation", "fontcolor", "bgcolor", "files"}

Focus(p) ==
    CASE p = "text" ->
           {TextLine(s) : s \in TextLines} \cup {Comment(<<"#">>)}
      [] p = "position" ->
           {Token("Position"), Number(F32(1)), Number(F32(2))}
      [] p = "size" -> {Token("Size"), Number(F32(1)), Number(F32(2))}
      [] p = "rotation" -> {Token("Rotation"), Number(F32(90))}
      [] p = "fontcolor" -> {Token("Fontcolor"), Number(F32(1)), String(Red)}
      [] p = "bgcolor" ->
           {Token("BackGroundColor"), Number(F32(1)), String(Red)}
      [] p = "files" ->
           {String(<<"i">>), String(<<"N">>), String(<<"K">>),
            String(<<"M">>), String(<<"x">>)}

Alphabet(p) == Core \cup Focus(p)

----------------------------------------------------------------------------
(* The state.                                                              *)

VARIABLES
    profile, \* the family of tokens the caller uses
    entry,   \* how the top-level lexer is driven: "lexer" (Lexer::new, any
             \* number of read_tokens calls, take) or "parse_text"
    stack,   \* the active lexers: stack[1] is the top-level one, stack[k+1]
             \* the lexer of the parse_file call made by stack[k]'s :im
    pc,      \* "idle", "running" (inside read_tokens), "taken", "panicked"
    result,  \* what the last finished top-level read_tokens call returned
    doc,     \* Some(document) once take has returned it
    fed,     \* number of tokens handed to the top-level lexer so far
    last,    \* the last token dispatched: its symbol, the lexer's state
             \* before it, the handler's result, the depth of the lexer and
             \* the number of tokens known to follow it
    hist,    \* the :sl / :tb / :fg directives the top-level lexer accepted
    tokenizer_state, \* a call of tokenizer: its input, the lines read so
             \* far, the tokens pushed and where the call is
    parses,  \* successive calls of parse_text: the text of the first call,
             \* the text of the call after it, the number of the running
             \* call and what the first call gave
    splits,  \* a text read whole (run 1), then in slices (run 2): the
             \* text, where it is cut, the number of tokens handed to the
             \* lexer of run 2, and what run 1 came to
    window,  \* the SDL slideshow window: its index, its slides, whether it
             \* has to be drawn again
    timer,   \* the timer window: its status, the seconds counted, the clock
    threads, \* the threads of main: the watcher, the parser, the event loop
             \* and the channels between them
    driver,  \* create_slides of the line-by-line parser at work on a file
    context  \* the crossterm context: its slides and the index shown

\* The state of the components other than the lexer.
others ==
    <<tokenizer_state, parses, splits, window, timer, threads, driver, context>>

vars ==
    <<profile, entry, overflow_checks, others,
      stack, pc, result, doc, fed, last, hist>>

\* No call of tokenizer is under way.
NoTokenizer == [inp |-> <<>>, linenum |-> 0, tokens |-> <<>>, pc |-> "idle"]

\* No succession of parse_text calls is followed.
NoParses == [text |-> <<>>, other |-> <<>>, run |-> 0, first |-> None]

\* No text is read whole and then in slices.
NoSplits ==
    [text |-> <<>>, cuts |-> {}, run |-> 0, pos |-> 0, whole |-> None]

\* No window is open.
NoWindow == [pc |-> "none"]

\* There is no timer, no main at work, no line-by-line parse, no terminal.
NoTimer == [pc |-> "none"]

NoThreads == [pc |-> "none"]

NoDriver == [pc |-> "none"]

NoContext == [pc |-> "none"]

\* The other components are not in use.
OthersIdle ==
    /\ tokenizer_state = NoTokenizer
    /\ parses = NoParses
    /\ splits = NoSplits
    /\ window = NoWindow
    /\ timer = NoTimer
    /\ threads = NoThreads
    /\ driver = NoDriver
    /\ context = NoContext

\* A frame: a lexer, the tokens of the slice it is reading that are still to
\* be dispatched, and whether the slice ends after them.  pre is the lexer
\* as it was before the :im this frame is waiting for.
Frame(lexer, tokens, ended) ==
    [lexer |-> lexer, tokens |-> tokens, ended |-> ended, pre |-> lexer]

NoLast ==
    [sym |-> "None", state |-> "None", res |-> "None", depth |-> 0,
     pending |-> 0]

NoHist == [events |-> <<>>, import |-> FALSE, err |-> FALSE]

Init ==
    /\ profile \in Profiles
    \* Only :sz behaves differently in the two builds.
    /\ overflow_checks \in (IF profile = "size" THEN BOOLEAN ELSE {TRUE})
    /\ entry \in {"lexer", "parse_text"}
    /\ stack = <<Frame(Lexer, <<>>, TRUE)>>
    /\ pc = "idle"
    /\ result = "None"
    /\ doc = None
    /\ fed = 0
    /\ last = NoLast
    /\ hist = NoHist
    /\ OthersIdle

depth == Len(stack)

top == stack[depth]

\* The top-level lexer.
lexer == stack[1].lexer

\* parse_file up to parse_text: File::open and read_to_string succeed on an
\* existing slide file only.
parse_file_opens(path) == path \in DOMAIN SlideFiles

\* The match of read_tokens: the handler of token t, given the tokens after
\* it.  For :im this is manage_import up to the nested parse.
Handle(l, t, rem) ==
    CASE t.symbol = "Generic" -> manage_generic(l, rem)
      [] t.symbol = "Figure" -> manage_figure(l, rem)
      [] t.symbol = "Import" ->
           LET out == manage_import(l, rem)
           IN IF out.res = "Ok" /\ ~parse_file_opens(Head(rem).text)
              THEN Err(out.lexer)
              ELSE out
      [] t.symbol = "Slide" -> manage_slide(l, rem)
      [] t.symbol = "TextLine" -> manage_textline(l, t.text, rem)
      [] t.symbol = "TextBuffer" -> manage_textbuffer(l, rem)
      [] t.symbol = "Position" -> manage_position(l, rem)
      [] t.symbol = "Size" -> manage_size(l, rem)
      [] t.symbol = "Rotation" -> manage_rotation(l, rem)
      [] t.symbol = "Fontcolor" -> manage_fontcolor(l, rem)
      [] t.symbol = "BackGroundColor" -> manage_bg_color(l, rem)
      [] t.symbol = "Comment" -> manage_comment(l, rem)
      [] OTHER -> manage_literal(l, rem)

\* The slice of the running read_tokens call is known far enough for the
\* handler of its first token: it has ended, or the handler cannot look
\* further, or a token that ends the argument list is known.
Ready(f) ==
    IF f.tokens = <<>> THEN FALSE
    ELSE IF f.ended THEN TRUE
    ELSE LET sym == Head(f.tokens).symbol
             rem == Tail(f.tokens)
         IN IF Len(rem) >= LookAhead(sym, f.lexer) THEN TRUE
            ELSE \E i \in 1..Len(rem) : ~Collects(sym, rem[i])

----------------------------------------------------------------------------
(* The caller.                                                             *)

\* A call of read_tokens on the top-level lexer.  parse_text makes one.
ReadTokens ==
    /\ pc = "idle"
    /\ entry = "parse_text" => result = "None"
    /\ fed < MaxTokens
    /\ pc' = "running"
    /\ stack' = <<[stack[1] EXCEPT !.tokens = <<>>, !.ended = FALSE]>>
    /\ UNCHANGED <<profile, entry, overflow_checks, others,
                   result, doc, fed, last, hist>>

\* The next token of the slice.
Feed ==
    /\ pc = "running" /\ depth = 1
    /\ ~top.ended /\ ~Ready(top)
    /\ fed < MaxTokens
    /\ \E t \in Alphabet(profile) :
          stack' = <<[stack[1] EXCEPT !.tokens = Append(@, t)]>>
    /\ fed' = fed + 1
    /\ UNCHANGED <<profile, entry, overflow_checks, others,
                   pc, result, doc, last, hist>>

\* The slice ends here.
EndSlice ==
    /\ pc = "running" /\ depth = 1
    /\ ~top.ended /\ ~Ready(top)
    /\ stack' = <<[stack[1] EXCEPT !.ended = TRUE]>>
    /\ UNCHANGED <<profile, entry, overflow_checks, others,
                   pc, result, doc, fed, last, hist>>

\* parse_text that takes the document whatever read_tokens returned.
parse_text_takes_always(res) == res \in {"Ok", "Err"}

\* parse_text: the `?` after read_tokens; take is reached only on Ok.
parse_text_takes(res) == res = "Ok"

\* Lexer::take on the top-level lexer.
Take ==
    /\ pc = "idle"
    /\ IF entry = "parse_text" THEN parse_text_takes(result)
       ELSE result # "None"
    /\ pc' = "taken"
    /\ doc' = Some(take(lexer))
    /\ UNCHANGED <<profile, entry, overflow_checks, others,
                   stack, result, fed, last, hist>>

----------------------------------------------------------------------------
(* read_tokens: one loop iteration per action.                             *)

Event(tok) ==
    CASE tok.symbol = "Slide" -> <<"sl">>
      [] tok.symbol = "TextBuffer" -> <<"tb">>
      [] tok.symbol = "Figure" -> <<"fg">>
      [] OTHER -> <<>>

\* The loop body where manage_import drops the error of the nested parse
\* and goes on after the path, appending nothing.
Step_swallowing(out) ==
    LET tok == Head(top.tokens)
        rem == Tail(top.tokens)
    IN /\ last' = [sym |-> tok.symbol, state |-> top.lexer.state,
                   res |-> IF out.res = "Ok" /\ out.skip > Len(rem)
                           THEN "Panic" ELSE out.res,
                   depth |-> depth, pending |-> Len(rem)]
       /\ CASE out.res = "Ok" /\ out.skip <= Len(rem) ->
                 /\ stack' = [stack EXCEPT
                                ![depth].lexer = out.lexer,
                                ![depth].tokens =
                                   SubSeq(rem, out.skip + 1, Len(rem))]
                 /\ hist' = IF depth = 1
                            THEN [hist EXCEPT !.events = @ \o Event(tok)]
                            ELSE hist
                 /\ UNCHANGED <<pc, result>>
            [] out.res = "Err" /\ depth > 1 ->
                 /\ stack' = [SubSeq(stack, 1, depth - 1) EXCEPT
                                ![depth - 1].tokens = Tail(Tail(@))]
                 /\ UNCHANGED <<pc, result, hist>>
            [] out.res = "Err" /\ depth = 1 ->
                 /\ stack' = <<[stack[1] EXCEPT
                                  !.lexer = out.lexer,
                                  !.tokens = <<>>,
                                  !.ended = TRUE]>>
                 /\ pc' = "idle"
                 /\ result' = "Err"
                 /\ hist' = [hist EXCEPT !.err = TRUE]
            [] OTHER ->
                 /\ stack' = [stack EXCEPT ![depth].lexer = out.lexer]
                 /\ pc' = "panicked"
                 /\ UNCHANGED <<result, hist>>
       /\ UNCHANGED <<profile, entry, overflow_checks, others,
                      doc, fed>>

\* The loop body after the handler returned `out` for the first token of the
\* top frame.
Step(out) ==
    LET tok == Head(top.tokens)
        rem == Tail(top.tokens)
    IN /\ last' = [sym |-> tok.symbol, state |-> top.lexer.state,
                   res |-> IF out.res = "Ok" /\ out.skip > Len(rem)
                           THEN "Panic" ELSE out.res,
                   depth |-> depth, pending |-> Len(rem)]
       /\ CASE out.res = "Ok" /\ out.skip <= Len(rem) ->
                 /\ stack' = [stack EXCEPT
                                ![depth].lexer = out.lexer,
                                ![depth].tokens =
                                   SubSeq(rem, out.skip + 1, Len(rem))]
                 /\ hist' = IF depth = 1
                            THEN [hist EXCEPT !.events = @ \o Event(tok)]
                            ELSE hist
                 /\ UNCHANGED <<pc, result>>
            [] out.res = "Err" ->
                 \* `skip?` returns from read_tokens; every enclosing
                 \* parse_file, manage_import and read_tokens returns the
                 \* error in turn.
                 /\ stack' = <<[stack[1] EXCEPT
                                  !.lexer = IF depth = 1 THEN out.lexer ELSE @,
                                  !.tokens = <<>>,
                                  !.ended = TRUE]>>
                 /\ pc' = "idle"
                 /\ result' = "Err"
                 /\ hist' = [hist EXCEPT !.err = TRUE]
            [] OTHER ->
                 \* A panic of the handler, or rem[skip..] out of range.
                 /\ stack' = [stack EXCEPT ![depth].lexer = out.lexer]
                 /\ pc' = "panicked"
                 /\ UNCHANGED <<result, hist>>
       /\ UNCHANGED <<profile, entry, overflow_checks, others, doc, fed>>

Dispatch(sym) ==
    /\ pc = "running"
    /\ Ready(top)
    /\ Head(top.tokens).symbol = sym

DispatchGeneric ==
    /\ Dispatch("Generic")
    /\ Step(manage_generic(top.lexer, Tail(top.tokens)))

DispatchSlide ==
    /\ Dispatch("Slide")
    /\ Step(manage_slide(top.lexer, Tail(top.tokens)))

DispatchTextLine ==
    /\ Dispatch("TextLine")
    /\ Step(manage_textline(top.lexer, Head(top.tokens).text,
                            Tail(top.tokens)))

DispatchTextBuffer ==
    /\ Dispatch("TextBuffer")
    /\ Step(manage_textbuffer(top.lexer, Tail(top.tokens)))

DispatchFigure ==
    /\ Dispatch("Figure")
    /\ Step(manage_figure(top.lexer, Tail(top.tokens)))

DispatchPosition ==
    /\ Dispatch("Position")
    /\ Step(manage_position(top.lexer, Tail(top.tokens)))

DispatchSize ==
    /\ Dispatch("Size")
    /\ Step(manage_size(top.lexer, Tail(top.tokens)))

DispatchRotation ==
    /\ Dispatch("Rotation")
    /\ Step(manage_rotation(top.lexer, Tail(top.tokens)))

DispatchFontcolor ==
    /\ Dispatch("Fontcolor")
    /\ Step(manage_fontcolor(top.lexer, Tail(top.tokens)))

DispatchBackGroundColor ==
    /\ Dispatch("BackGroundColor")
    /\ Step(manage_bg_color(top.lexer, Tail(top.tokens)))

DispatchComment ==
    /\ Dispatch("Comment")
    /\ Step(manage_comment(top.lexer, Tail(top.tokens)))

DispatchLiteral ==
    /\ \/ Dispatch("String")
       \/ Dispatch("Number")
    /\ Step(manage_literal(top.lexer, Tail(top.tokens)))

\* :im whose manage_import fails before it parses the file.
DispatchImportFail ==
    /\ Dispatch("Import")
    /\ LET out == manage_import(top.lexer, Tail(top.tokens))
       IN IF out.res = "Ok" /\ parse_file_opens(Head(Tail(top.tokens)).text)
          THEN FALSE
          ELSE Step(Err(out.lexer))

\* The path after the :im that the frame k is at: the frames under the top
\* one are inside that import, the top one may be about to make it.
Importing(k) ==
    IF Len(stack[k].tokens) >= 2 /\ stack[k].tokens[1].symbol = "Import"
         /\ stack[k].tokens[2].symbol = "String"
         /\ parse_file_opens(stack[k].tokens[2].text)
    THEN Some(stack[k].tokens[2].text)
    ELSE None

\* manage_import refusing to import a file that is being parsed.
DispatchImportCall_detecting ==
    /\ Dispatch("Import")
    /\ depth < MaxDepth
    /\ LET out == manage_import(top.lexer, Tail(top.tokens))
       IN /\ out.res = "Ok"
          /\ parse_file_opens(Head(Tail(top.tokens)).text)
          /\ IF \E k \in 1..(depth - 1) : Importing(k) = Importing(depth)
             THEN Step(Err(out.lexer))
             ELSE /\ stack' =
                       Append([stack EXCEPT ![depth].lexer = out.lexer,
                                            ![depth].pre = top.lexer],
                              Frame(Lexer,
                                    SlideFiles[Head(Tail(top.tokens)).text],
                                    TRUE))
                  /\ hist' = IF depth = 1 THEN [hist EXCEPT !.import = TRUE]
                             ELSE hist
                  /\ UNCHANGED <<profile, entry, overflow_checks, others,
                                 pc, result, doc, fed, last>>

\* :im that calls parse_file on an existing file: parse_text makes a new
\* lexer and reads the file's tokens with it.
DispatchImportCall ==
    /\ Dispatch("Import")
    /\ depth < MaxDepth
    /\ LET out == manage_import(top.lexer, Tail(top.tokens))
       IN /\ out.res = "Ok"
          /\ parse_file_opens(Head(Tail(top.tokens)).text)
          /\ stack' =
               Append([stack EXCEPT ![depth].lexer = out.lexer,
                                    ![depth].pre = top.lexer],
                      Frame(Lexer,
                            SlideFiles[Head(Tail(top.tokens)).text], TRUE))
    /\ hist' = IF depth = 1 THEN [hist EXCEPT !.import = TRUE] ELSE hist
    /\ UNCHANGED <<profile, entry, overflow_checks, others,
                   pc, result, doc, fed, last>>

\* The nested read_tokens returned Ok: parse_text takes the document,
\* manage_import appends its slides and returns Ok(1).
ImportReturn ==
    /\ pc = "running"
    /\ depth > 1
    /\ top.tokens = <<>>
    /\ LET parent == stack[depth - 1]
           rem == Tail(parent.tokens)
           after == manage_import_append(parent.lexer, take(top.lexer))
       IN /\ stack' = [SubSeq(stack, 1, depth - 1) EXCEPT
                         ![depth - 1].lexer = after,
                         ![depth - 1].tokens = SubSeq(rem, 2, Len(rem))]
          /\ last' = [sym |-> "Import", state |-> parent.pre.state,
                      res |-> "Ok", depth |-> depth - 1,
                      pending |-> Len(rem)]
    /\ UNCHANGED <<profile, entry, overflow_checks, others,
                   pc, result, doc, fed, hist>>

\* read_tokens closing the open slide when it returns.
ReturnOk_flushing ==
    /\ pc = "running"
    /\ depth = 1
    /\ top.tokens = <<>> /\ top.ended
    /\ pc' = "idle"
    /\ result' = "Ok"
    /\ stack' = <<[stack[1] EXCEPT
                     !.lexer = [slideshow |-> take(@), slide |-> None,
                                state |-> @.state]]>>
    /\ UNCHANGED <<profile, entry, overflow_checks, others,
                   doc, fed, last, hist>>

\* The loop of the top-level read_tokens ends: Ok(()).
ReturnOk ==
    /\ pc = "running"
    /\ depth = 1
    /\ top.tokens = <<>> /\ top.ended
    /\ pc' = "idle"
    /\ result' = "Ok"
    /\ UNCHANGED <<profile, entry, overflow_checks, others,
                   stack, doc, fed, last, hist>>

Next ==
    \/ ReadTokens
    \/ Feed
    \/ EndSlice
    \/ Take
    \/ DispatchGeneric
    \/ DispatchSlide
    \/ DispatchTextLine
    \/ DispatchTextBuffer
    \/ DispatchFigure
    \/ DispatchPosition
    \/ DispatchSize
    \/ DispatchRotation
    \/ DispatchFontcolor
    \/ DispatchBackGroundColor
    \/ DispatchComment
    \/ DispatchLiteral
    \/ DispatchImportFail
    \/ DispatchImportCall
    \/ ImportReturn
    \/ ReturnOk

Spec == Init /\ [][Next]_vars

TypeOK ==
    /\ pc \in {"idle", "running", "taken", "panicked"}
    /\ overflow_checks \in BOOLEAN
    /\ result \in {"None", "Ok", "Err"}
    /\ fed \in 0..MaxTokens
    /\ depth \in 1..MaxDepth
    /\ \A k \in 1..depth : stack[k].lexer.state \in CurrentState

----------------------------------------------------------------------------
(* One read_tokens call on a directive with arguments: the lexer is in a   *)
(* state an earlier call left it in, and the slice is :sz, :fc or :bc      *)
(* followed by any tokens.  The whole slice is known from the start.       *)

\* Tokens after the directive.
MaxArgs == 4

\* The lexers left by :ge, by :sl, by :sl :tb and by :sl :fg i.
ArgLexers ==
    LET ge == manage_generic(Lexer, <<>>).lexer
        sl == manage_slide(Lexer, <<>>).lexer
        tb == manage_textbuffer(sl, <<>>).lexer
        fg == manage_figure(sl, <<String(<<"i">>)>>).lexer
    IN {ge, sl, tb, fg}

\* Numbers that are and are not color channels (1.5 and 300 are not), a
\* color name and a token that is no argument.
ArgTokens ==
    {Number(F32(0)), Number(F32(40)), Number(F32(255)), Number(F32(300)),
     Number(F32(3) \div 2), String(Red), Token("Slide")}

\* Strings given as a color.
ColorStrings ==
    {e.name : e \in NamedColors}
      \cup {<<"R", "E", "D">>, <<"R", "e", "d">>,
            <<"s", "I", "l", "V", "e", "R">>,
            <<"p", "i", "n", "k", "a">>, <<"r", "e", "d", " ">>, <<"r", "e">>,
            <<>>, <<"#">>,
            <<"#", "0", "3", "0", "5", "a", "0", "c", "1">>,
            <<"#", "8", "0", "8", "0", "8", "0", "1", "2">>,
            <<"#", "F", "f", "0", "0", "0", "0", "F", "F">>,
            <<"#", "q", "2", "2", "2", "2", "2", "2", "2">>,
            <<"#", "f", "f", "0", "0", "0", "0", "f">>,
            <<"#", "f", "f", "0", "0", "0", "0", "f", "f", "0">>,
            <<"f", "f", "0", "0", "0", "0", "f", "f">>,
            <<"0", "x", "f", "f", "0", "0", "0", "0", "f", "f">>}

ArgsInit ==
    /\ profile = "args"
    /\ entry = "lexer"
    /\ overflow_checks = TRUE
    /\ \E l \in ArgLexers,
          d \in {Token("Size"), Token("Fontcolor"), Token("BackGroundColor")} :
          \/ \E n \in 0..MaxArgs :
                \E args \in [1..n -> ArgTokens] :
                   stack = <<Frame(l, <<d>> \o args, TRUE)>>
          \/ \E str \in ColorStrings, n \in 0..1 :
                \E args \in [1..n -> ArgTokens] :
                   stack = <<Frame(l, <<d, String(str)>> \o args, TRUE)>>
    /\ pc = "running"
    /\ result = "None"
    /\ doc = None
    /\ fed = 0
    /\ last = NoLast
    /\ hist = NoHist
    /\ OthersIdle

ArgsNext ==
    \/ DispatchSize
    \/ DispatchFontcolor
    \/ DispatchBackGroundColor
    \/ DispatchSlide
    \/ DispatchLiteral
    \/ ReturnOk

ArgsSpec == ArgsInit /\ [][ArgsNext]_vars

----------------------------------------------------------------------------
(* The tokenizer (tokenizer.rs).  A str is a sequence of chars, and Rust    *)
(* slices it by byte offset: a char has a length in bytes, and a range      *)
(* that does not fall on char boundaries has no slice.                      *)

\* The longest text given to tokenizer, in chars.
MaxText == 4

\* The chars of the texts: the colon, the backslash, the hash, a blank, two
\* letters (":sl" is a mnemonic), a digit, a two-byte letter and the line
\* terminator.
Chars == {":", "\\", "#", " ", "s", "l", "1", "é", "\n"}

Texts == UNION {[1..n -> Chars] : n \in 0..MaxText}

\* char::len_utf8.
len_utf8(c) == IF c = "é" THEN 2 ELSE 1

\* str::len: the length in bytes.
RECURSIVE len(_)
len(s) == IF s = <<>> THEN 0 ELSE len_utf8(Head(s)) + len(Tail(s))

\* char::is_whitespace.
is_whitespace(c) == c \in {" ", "\t", "\n", "\r"}

is_char_boundary(s, b) == \E i \in 0..Len(s) : len(SubSeq(s, 1, i)) = b

\* The number of chars before the char boundary b.
CharsBefore(s, b) == CHOOSE i \in 0..Len(s) : len(SubSeq(s, 1, i)) = b

\* str::get(a..b): None unless a <= b and both are char boundaries of s.
str_get(s, a, b) ==
    IF a <= b /\ is_char_boundary(s, a) /\ is_char_boundary(s, b)
    THEN Some(SubSeq(s, CharsBefore(s, a) + 1, CharsBefore(s, b)))
    ELSE None

\* str::find(c): the byte offset of the first c.
find(s, c) ==
    IF \E i \in 1..Len(s) : s[i] = c
    THEN LET i == CHOOSE i \in 1..Len(s) :
                     s[i] = c /\ \A j \in 1..(i - 1) : s[j] # c
         IN Some(len(SubSeq(s, 1, i - 1)))
    ELSE None

\* str::starts_with(c).
starts_with(s, c) == s # <<>> /\ s[1] = c

\* The pieces of s between line feeds.
RECURSIVE SplitLines(_)
SplitLines(s) ==
    LET nl == find(s, "\n")
    IN IF nl = None THEN <<s>>
       ELSE LET i == CharsBefore(s, Unwrap(nl))
            IN <<SubSeq(s, 1, i)>> \o SplitLines(SubSeq(s, i + 2, Len(s)))

\* str::lines: the text is split at every line feed, a last empty piece is
\* no line, and a carriage return before the line feed is not part of the
\* line.
lines(inp) ==
    LET all == SplitLines(inp)
        kept == IF all[Len(all)] = <<>> THEN SubSeq(all, 1, Len(all) - 1)
                ELSE all
    IN [k \in 1..Len(kept) |->
          IF kept[k] # <<>> /\ kept[k][Len(kept[k])] = "\r"
          THEN SubSeq(kept[k], 1, Len(kept[k]) - 1) ELSE kept[k]]

TokenSpan(line, beg, end) == [line |-> line, beg |-> beg, end |-> end]

\* Token::new.
Token_new(symbol, span) == [symbol |-> symbol, span |-> span]

Mnemonics ==
    {[text |-> <<":", "g", "e">>, symbol |-> "Generic"],
     [text |-> <<":", "f", "c">>, symbol |-> "Fontcolor"],
     [text |-> <<":", "b", "c">>, symbol |-> "BackGroundColor"],
     [text |-> <<":", "s", "l">>, symbol |-> "Slide"],
     [text |-> <<":", "s", "z">>, symbol |-> "Size"],
     [text |-> <<":", "t", "b">>, symbol |-> "TextBuffer"],
     [text |-> <<":", "p", "s">>, symbol |-> "Position"],
     [text |-> <<":", "f", "g">>, symbol |-> "Figure"],
     [text |-> <<":", "r", "t">>, symbol |-> "Rotation"],
     [text |-> <<":", "i", "m">>, symbol |-> "Import"]}

Digits == <<"0", "1", "2", "3", "4", "5", "6", "7", "8", "9">>

IsDigit(c) == \E i \in 1..10 : Digits[i] = c

DigitVal(c) == (CHOOSE i \in 1..10 : Digits[i] = c) - 1

RECURSIVE Decimal(_)
Decimal(s) ==
    IF s = <<>> THEN 0
    ELSE 10 * Decimal(SubSeq(s, 1, Len(s) - 1)) + DigitVal(s[Len(s)])

\* str::parse::<f32> on the strings Chars can spell: only a non-empty string
\* of digits is a number.
parse_f32(val) ==
    IF val # <<>> /\ \A i \in 1..Len(val) : IsDigit(val[i])
    THEN Some(F32(Decimal(val))) ELSE None

build_token(val, linenum, beg, end) ==
    LET structure ==
           IF \E m \in Mnemonics : m.text = val
           THEN Token((CHOOSE m \in Mnemonics : m.text = val).symbol)
           ELSE IF parse_f32(val) # None THEN Number(Unwrap(parse_f32(val)))
           ELSE String(val)
    IN Token_new(structure, TokenSpan(linenum, beg, end))

\* What a function that can panic leaves: the tokens pushed so far.
Pushed(tokens) == [tokens |-> tokens, panic |-> FALSE]

Panicked(tokens) == [tokens |-> tokens, panic |-> TRUE]

\* The loop of parse_single_tokens from the char at index pos on, and the
\* code after the loop.  pos counts chars; the slices are taken by byte.
RECURSIVE parse_single_tokens_from(_, _, _, _, _, _)
parse_single_tokens_from(tokens, line, linenum, pos, last_whitespace, whitespace_mode) ==
    IF pos = Len(line)
    THEN IF ~whitespace_mode
         THEN LET elem == str_get(line, last_whitespace + 1, len(line))
              IN IF elem = None THEN Panicked(tokens)
                 ELSE Pushed(Append(tokens,
                                build_token(Unwrap(elem), linenum,
                                            last_whitespace + 1, len(line))))
         ELSE Pushed(tokens)
    ELSE IF is_whitespace(line[pos + 1])
    THEN IF ~(whitespace_mode \/ pos = 0)
         THEN LET elem == str_get(line, last_whitespace + 1, pos)
              IN IF elem = None THEN Panicked(tokens)
                 ELSE parse_single_tokens_from(
                         IF Unwrap(elem) # <<>>
                         THEN Append(tokens,
                                 build_token(Unwrap(elem), linenum,
                                             last_whitespace + 1, pos))
                         ELSE tokens,
                         line, linenum, pos + 1, pos, TRUE)
         ELSE parse_single_tokens_from(tokens, line, linenum, pos + 1, pos,
                                       TRUE)
    ELSE parse_single_tokens_from(tokens, line, linenum, pos + 1,
                                  last_whitespace, FALSE)

\* The line-length test never fails for the texts above.
parse_single_tokens(tokens, line, linenum) ==
    parse_single_tokens_from(tokens, line, linenum, 0, -1, FALSE)

\* parse_line taking every colon for a directive marker.
found_token_any_colon(modline, idx) == find(modline, ":") # None

\* The loop of parse_line: whether a colon that is no escaped colon is found
\* in modline from byte idx on.
RECURSIVE found_token(_, _)
found_token(modline, idx) ==
    IF idx >= len(modline) THEN FALSE
    ELSE LET rest == Unwrap(str_get(modline, idx, len(modline)))
             col == find(rest, ":")
         IN IF col = None THEN FALSE
            ELSE IF Unwrap(col) = 0 THEN TRUE
            ELSE IF str_get(rest, Unwrap(col) - 1, Unwrap(col))
                      = Some(<<"\\">>)
            THEN found_token(rest, Unwrap(col) + 1)
            ELSE TRUE

parse_line(tokens, line, linenum) ==
    IF ~found_token(line, 0)
    THEN Pushed(Append(tokens,
                   Token_new(IF ~starts_with(line, "#") THEN TextLine(line)
                             ELSE Comment(line),
                             TokenSpan(linenum, 0, len(line)))))
    ELSE parse_single_tokens(tokens, line, linenum)

\* tokenizer(inp) is called.
TokenizerInit ==
    /\ tokenizer_state \in
          {[inp |-> t, linenum |-> 0, tokens |-> <<>>, pc |-> "lines"] :
              t \in Texts}
    /\ parses = NoParses
    /\ splits = NoSplits
    /\ window = NoWindow
    /\ timer = NoTimer
    /\ threads = NoThreads
    /\ driver = NoDriver
    /\ context = NoContext
    /\ profile = "tokenizer"
    /\ entry = "lexer"
    /\ overflow_checks = TRUE
    /\ stack = <<Frame(Lexer, <<>>, TRUE)>>
    /\ pc = "idle"
    /\ result = "None"
    /\ doc = None
    /\ fed = 0
    /\ last = NoLast
    /\ hist = NoHist

\* The variables of the lexer.
lexers == <<profile, entry, overflow_checks, parses, splits, window, timer,
           threads, driver, context,
            stack, pc, result, doc, fed, last, hist>>

\* One iteration of tokenizer's loop over inp.lines().
ParseLine ==
    /\ tokenizer_state.pc = "lines"
    /\ tokenizer_state.linenum < Len(lines(tokenizer_state.inp))
    /\ LET linenum == tokenizer_state.linenum
           line == lines(tokenizer_state.inp)[linenum + 1]
           out == parse_line(tokenizer_state.tokens, line, linenum)
       IN tokenizer_state' =
             [tokenizer_state EXCEPT
                !.tokens = out.tokens,
                !.linenum = IF out.panic THEN @ ELSE @ + 1,
                !.pc = IF out.panic THEN "panicked" ELSE @]
    /\ UNCHANGED lexers

\* tokenizer returns the tokens.
TokenizerReturn ==
    /\ tokenizer_state.pc = "lines"
    /\ tokenizer_state.linenum = Len(lines(tokenizer_state.inp))
    /\ tokenizer_state' = [tokenizer_state EXCEPT !.pc = "done"]
    /\ UNCHANGED lexers

TokenizerNext ==
    \/ ParseLine
    \/ TokenizerReturn

TokenizerSpec == TokenizerInit /\ [][TokenizerNext]_vars

----------------------------------------------------------------------------
(* Calls of parse_text one after the other (mod.rs): the text of each is   *)
(* known from the start.  The text of the first call is parsed again after *)
(* a call on another text.                                                 *)

\* The longest text parsed, in tokens.
MaxParsed == 3

ParsedTokens ==
    Core \cup {Token("BackGroundColor"), String(Red), String(<<"i">>),
               TextLine(<<"b">>)}

ParsedTexts == UNION {[1..n -> ParsedTokens] : n \in 0..MaxParsed}

\* The texts parsed in between: one that leaves defaults and closed slides,
\* one that imports and leaves a slide with a section open.
OtherTexts == {FileB, FileN}

\* parse_text going on with the lexer of the call before.
parse_text_lexer_kept(earlier) == earlier

\* The lexer of a call of parse_text: Lexer::new(base_folder), whatever
\* lexer an earlier call had.
parse_text_lexer(earlier) == Lexer

ParseInit ==
    /\ \E text \in ParsedTexts, other \in OtherTexts :
          /\ parses = [text |-> text, other |-> other, run |-> 1,
                       first |-> None]
          /\ stack = <<Frame(Lexer, text, TRUE)>>
    /\ tokenizer_state = NoTokenizer
    /\ splits = NoSplits
    /\ window = NoWindow
    /\ timer = NoTimer
    /\ threads = NoThreads
    /\ driver = NoDriver
    /\ context = NoContext
    /\ profile = "parse"
    /\ entry = "parse_text"
    /\ overflow_checks = TRUE
    /\ pc = "running"
    /\ result = "None"
    /\ doc = None
    /\ fed = 0
    /\ last = NoLast
    /\ hist = NoHist

\* The running call of parse_text is over: it returned the document or the
\* error, or it panicked.
Finished == IF pc = "idle" THEN result = "Err" ELSE pc \in {"taken", "panicked"}

\* What the call that is over gave its caller.
Outcome ==
    IF pc = "taken" THEN [res |-> "Ok", doc |-> doc]
    ELSE [res |-> IF pc = "panicked" THEN "Panic" ELSE "Err", doc |-> None]

\* The next call of parse_text: on the other text, then on the first text
\* again.
ParseText ==
    /\ Finished
    /\ parses.run < 3
    /\ parses' = [parses EXCEPT
                    !.run = @ + 1,
                    !.first = IF parses.run = 1 THEN Some(Outcome) ELSE @]
    /\ stack' = <<Frame(parse_text_lexer(lexer),
                        IF parses.run = 1 THEN parses.other ELSE parses.text,
                        TRUE)>>
    /\ pc' = "running"
    /\ result' = "None"
    /\ doc' = None
    /\ last' = NoLast
    /\ hist' = NoHist
    /\ UNCHANGED <<profile, entry, overflow_checks, tokenizer_state, splits,
                   window, timer, threads, driver, context, fed>>

ParseNext ==
    \/ ParseText
    \/ Take
    \/ DispatchGeneric
    \/ DispatchSlide
    \/ DispatchTextLine
    \/ DispatchTextBuffer
    \/ DispatchFigure
    \/ DispatchFontcolor
    \/ DispatchBackGroundColor
    \/ DispatchLiteral
    \/ DispatchImportFail
    \/ DispatchImportCall
    \/ ImportReturn
    \/ ReturnOk

ParseSpec == ParseInit /\ [][ParseNext]_vars

----------------------------------------------------------------------------
(* One token sequence read by a lexer in one call of read_tokens, and read *)
(* by another lexer slice after slice in successive calls.                 *)

SplitTokens ==
    {Token("Generic"), Token("Slide"), Token("TextBuffer"), Token("Import"),
     String(<<"B">>), Token("Size"), Number(F32(1)), TextLine(<<"b">>)}

\* The longest sequence read, in tokens.
MaxSplit == 4

SplitTexts == UNION {[1..n -> SplitTokens] : n \in 0..MaxSplit}

\* read_tokens as a function of the lexer and of the tokens still to read,
\* n tokens of the slice being read already: what the call returns, the
\* lexer it leaves, and marks, the numbers of tokens that were read each
\* time the loop came to its head.
RECURSIVE read_tokens(_, _, _, _)
read_tokens(l, tokens, n, marks) ==
    IF tokens = <<>>
    THEN [res |-> "Ok", lexer |-> l, marks |-> marks \cup {n}]
    ELSE LET t == Head(tokens)
             rem == Tail(tokens)
             out == Handle(l, t, rem)
             seen == marks \cup {n}
         IN IF out.res # "Ok"
            THEN [res |-> out.res, lexer |-> out.lexer, marks |-> seen]
            ELSE IF t.symbol = "Import"
            THEN LET nested ==
                        read_tokens(Lexer, SlideFiles[Head(rem).text], 0, {})
                 IN IF nested.res = "Ok"
                    THEN read_tokens(
                            manage_import_append(out.lexer,
                                                 take(nested.lexer)),
                            Tail(rem), n + 2, seen)
                    ELSE [res |-> nested.res, lexer |-> out.lexer,
                          marks |-> seen]
            ELSE IF out.skip > Len(rem)
            THEN [res |-> "Panic", lexer |-> out.lexer, marks |-> seen]
            ELSE read_tokens(out.lexer, SubSeq(rem, out.skip + 1, Len(rem)),
                             n + 1 + out.skip, seen)

\* The places where text can be cut without parting a directive from the
\* tokens its handler takes when the whole text is read in one call.
Cuts(text) == read_tokens(Lexer, text, 0, {}).marks \cap 1..(Len(text) - 1)

\* The slice that starts after pos tokens ends at the next cut, or with the
\* text.
SliceEnd(pos) ==
    IF \E c \in splits.cuts : c > pos
    THEN CHOOSE c \in splits.cuts :
            c > pos /\ \A e \in splits.cuts : e > pos => c <= e
    ELSE Len(splits.text)

SplitInit ==
    /\ \E text \in SplitTexts :
          \E cuts \in SUBSET Cuts(text) :
             /\ splits = [text |-> text, cuts |-> cuts, run |-> 1,
                          pos |-> Len(text), whole |-> None]
             /\ stack = <<Frame(Lexer, text, TRUE)>>
    /\ tokenizer_state = NoTokenizer
    /\ parses = NoParses
    /\ window = NoWindow
    /\ timer = NoTimer
    /\ threads = NoThreads
    /\ driver = NoDriver
    /\ context = NoContext
    /\ profile = "split"
    /\ entry = "lexer"
    /\ overflow_checks = TRUE
    /\ pc = "running"
    /\ result = "None"
    /\ doc = None
    /\ fed = 0
    /\ last = NoLast
    /\ hist = NoHist

\* What the calls made so far on the top-level lexer came to.
Reached ==
    [res |-> IF pc = "panicked" THEN "Panic" ELSE result, lexer |-> lexer]

\* The call on the whole text is over: a new lexer is given the first slice.
ReadSlices ==
    /\ pc \in {"idle", "panicked"}
    /\ splits.run = 1
    /\ splits' = [splits EXCEPT !.run = 2, !.pos = SliceEnd(0),
                                !.whole = Some(Reached)]
    /\ stack' = <<Frame(Lexer, SubSeq(splits.text, 1, SliceEnd(0)), TRUE)>>
    /\ pc' = "running"
    /\ result' = "None"
    /\ last' = NoLast
    /\ hist' = NoHist
    /\ UNCHANGED <<profile, entry, overflow_checks, tokenizer_state, parses,
                   window, timer, threads, driver, context, doc, fed>>

\* The call on a slice returned Ok: the same lexer is given the next slice.
ReadNextSlice ==
    /\ pc = "idle" /\ result = "Ok"
    /\ splits.run = 2
    /\ splits.pos < Len(splits.text)
    /\ splits' = [splits EXCEPT !.pos = SliceEnd(splits.pos)]
    /\ stack' = <<Frame(lexer,
                        SubSeq(splits.text, splits.pos + 1,
                               SliceEnd(splits.pos)),
                        TRUE)>>
    /\ pc' = "running"
    /\ UNCHANGED <<profile, entry, overflow_checks, tokenizer_state, parses,
                   window, timer, threads, driver, context, result, doc, fed,
                   last, hist>>

SplitNext ==
    \/ ReadSlices
    \/ ReadNextSlice
    \/ DispatchGeneric
    \/ DispatchSlide
    \/ DispatchTextLine
    \/ DispatchTextBuffer
    \/ DispatchSize
    \/ DispatchFontcolor
    \/ DispatchBackGroundColor
    \/ DispatchLiteral
    \/ DispatchImportFail
    \/ DispatchImportCall
    \/ ImportReturn
    \/ ReturnOk

SplitSpec == SplitInit /\ [][SplitNext]_vars

----------------------------------------------------------------------------
(* parse_text on a text that imports files, which import files in turn     *)
(* (mod.rs, parse_file; utils.rs, manage_import).  The program is          *)
(* sequential: it takes its next step as long as it has one.               *)

\* The most pieces in the text parsed.
MaxImports == 2

\* The pieces of a text: a slide, or the import of a path.
Pieces ==
    {<<Token("Slide")>>}
      \cup {<<Token("Import"), String(p)>> :
               p \in DOMAIN SlideFiles \cup {<<"x">>}}

RECURSIVE Flatten(_)
Flatten(seqs) ==
    IF seqs = <<>> THEN <<>> ELSE Head(seqs) \o Flatten(Tail(seqs))

ImportTexts ==
    {Flatten(ps) : ps \in UNION {[1..n -> Pieces] : n \in 0..MaxImports}}

ImportInit ==
    /\ \E text \in ImportTexts : stack = <<Frame(Lexer, text, TRUE)>>
    /\ OthersIdle
    /\ profile = "import"
    /\ entry = "parse_text"
    /\ overflow_checks = TRUE
    /\ pc = "running"
    /\ result = "None"
    /\ doc = None
    /\ fed = 0
    /\ last = NoLast
    /\ hist = NoHist

ImportNext ==
    \/ Take
    \/ DispatchGeneric
    \/ DispatchSlide
    \/ DispatchTextLine
    \/ DispatchTextBuffer
    \/ DispatchRotation
    \/ DispatchFontcolor
    \/ DispatchBackGroundColor
    \/ DispatchImportFail
    \/ DispatchImportCall
    \/ ImportReturn
    \/ ReturnOk

ImportSpec == ImportInit /\ [][ImportNext]_vars /\ WF_vars(ImportNext)

----------------------------------------------------------------------------
(* The SDL slideshow window (backends/sdl/slideshow.rs).  A slide is known *)
(* by a number: the slides of a deck are 1, 2, ..., and 0 is               *)
(* Slide::default().  The textures are left out.                           *)

\* The most slides in a deck given to set_slides.
MaxDeck == 3

\* usize::MAX, as far as the comparisons with the index go.
UsizeMax == 2147483647

DefaultSlide == 0

Decks == {[i \in 1..n |-> i] : n \in 0..MaxDeck}

\* Window::new: no slide, index 0.  op is the last method called, before
\* the index it found and shown the slides last drawn on the main and on the
\* side window.
NewWindow ==
    [idx |-> 0, is_changed |-> TRUE, slides |-> <<>>, pc |-> "ready",
     op |-> "new", before |-> 0, shown |-> None]

\* A call that panicked.
Aborted(w) == [w EXCEPT !.pc = "panicked"]

\* `self.slides.slides.len() - 1` underflows.
Underflows(w) == w.slides = <<>>

\* `self.slides.slides.len() - 1` in a build without overflow checks.
LenMinusOne(w) == IF w.slides = <<>> THEN UsizeMax ELSE Len(w.slides) - 1

\* next_slide that also steps from the last slide.
next_slide_past_end(w) ==
    IF Underflows(w) /\ overflow_checks THEN Aborted(w)
    ELSE IF w.idx <= LenMinusOne(w)
    THEN [w EXCEPT !.idx = @ + 1, !.is_changed = TRUE]
    ELSE w

next_slide(w) ==
    IF Underflows(w) /\ overflow_checks THEN Aborted(w)
    ELSE IF w.idx < LenMinusOne(w)
    THEN [w EXCEPT !.idx = @ + 1, !.is_changed = TRUE]
    ELSE w

prev_slide(w) ==
    IF w.idx > 0 THEN [w EXCEPT !.idx = @ - 1, !.is_changed = TRUE] ELSE w

RECURSIVE set_first_good_slide(_)
set_first_good_slide(w) ==
    IF Underflows(w) /\ overflow_checks THEN Aborted(w)
    ELSE IF w.idx > LenMinusOne(w) THEN set_first_good_slide(prev_slide(w))
    ELSE w

\* set_slides; preload_textures does not touch the index or the slides.
set_slides(w, slides) ==
    LET placed == set_first_good_slide([w EXCEPT !.slides = slides])
    IN IF placed.pc = "panicked" THEN placed
       ELSE [placed EXCEPT !.is_changed = TRUE]

\* present_slide, and `is_changed = false` of the render loop after it.
\* draw_sections indexes the slides with idx and with next_idx.
present_slide(w) ==
    LET filled == IF w.slides = <<>>
                  THEN [w EXCEPT !.slides = <<DefaultSlide>>] ELSE w
        placed == set_first_good_slide(filled)
        next_idx == IF placed.idx < LenMinusOne(placed) THEN placed.idx + 1
                    ELSE placed.idx
    IN IF placed.pc = "panicked" THEN placed
       ELSE IF placed.idx >= Len(placed.slides)
               \/ next_idx >= Len(placed.slides)
       THEN Aborted(placed)
       ELSE [placed EXCEPT
               !.shown = Some(<<placed.slides[placed.idx + 1],
                                placed.slides[next_idx + 1]>>),
               !.is_changed = FALSE]

\* The method op was called and left w.
Called(op, w) ==
    /\ window' = [w EXCEPT !.op = op, !.before = window.idx]
    /\ UNCHANGED <<tokenizer_state, parses, splits, timer, threads, driver,
                   context>>
    /\ UNCHANGED <<profile, entry, stack, pc, result, doc, fed, last, hist,
                   overflow_checks>>

WindowInit ==
    /\ window = NewWindow
    /\ timer = NoTimer
    /\ threads = NoThreads
    /\ driver = NoDriver
    /\ context = NoContext
    /\ overflow_checks \in BOOLEAN
    /\ tokenizer_state = NoTokenizer
    /\ parses = NoParses
    /\ splits = NoSplits
    /\ profile = "window"
    /\ entry = "lexer"
    /\ stack = <<Frame(Lexer, <<>>, TRUE)>>
    /\ pc = "idle"
    /\ result = "None"
    /\ doc = None
    /\ fed = 0
    /\ last = NoLast
    /\ hist = NoHist

\* The key N.  Without overflow checks and without slides the index grows
\* at each press; the model follows it up to MaxDeck.
NextSlide ==
    /\ window.pc = "ready"
    /\ window.idx < MaxDeck
    /\ Called("next_slide", next_slide(window))

\* The key P.
PrevSlide ==
    /\ window.pc = "ready"
    /\ Called("prev_slide", prev_slide(window))

\* The parser thread sent a document.
SetSlides ==
    /\ window.pc = "ready"
    /\ \E slides \in Decks : Called("set_slides", set_slides(window, slides))

\* present_slide is public: it is called here whether or not is_changed is
\* set, which includes the calls the render loop makes.
PresentSlide ==
    /\ window.pc = "ready"
    /\ Called("present_slide", present_slide(window))

WindowNext ==
    \/ NextSlide
    \/ PrevSlide
    \/ SetSlides
    \/ PresentSlide

WindowSpec == WindowInit /\ [][WindowNext]_vars

----------------------------------------------------------------------------
(* The slideshow window of windows/slideshow.rs.  Its next_slide,          *)
(* prev_slide, set_first_good_slide, set_slides and present_slide are,     *)
(* line for line, those of backends/sdl/slideshow.rs; it has set_slide in  *)
(* addition.  The variable window holds it.                                *)

\* set_slide(idx): the test is on the index the window has, self.idx.
set_slide(w, idx) ==
    IF w.idx >= Len(w.slides) THEN Aborted(w)
    ELSE [w EXCEPT !.idx = idx, !.is_changed = TRUE]

\* The caller asks for the slide idx.
SetSlide ==
    /\ window.pc = "ready"
    /\ \E idx \in 0..MaxDeck : Called("set_slide", set_slide(window, idx))

SlideShowWindowNext ==
    \/ SetSlide
    \/ NextSlide
    \/ PrevSlide
    \/ SetSlides
    \/ PresentSlide

SlideShowWindowSpec == WindowInit /\ [][SlideShowWindowNext]_vars

----------------------------------------------------------------------------
(* The timer window (backends/sdl/timer.rs).  The clock counts whole       *)
(* seconds and never goes back, so that `since.elapsed().unwrap()` always  *)
(* has a value.                                                            *)

\* The most steps the clock makes.
MaxTicks == 3

\* The seconds the clock goes on by in one step: a second, the rest of a
\* minute, the rest of an hour, 127 hours and 128 hours.
Steps == {1, 59, 3540, 127 * 3600, 128 * 3600}

\* `as u8`.
AsU8(n) == n % 256

\* Window::new.  now is the clock and ticks the steps it has made; op is the
\* last thing that happened and shown what update drew last.
NewTimer ==
    [timer_status |-> "Stopped", since |-> 0, total_elapsed |-> 0,
     now |-> 0, ticks |-> 0, op |-> "new", shown |-> None]

\* `since.elapsed().unwrap().as_secs()`, or 0 for a stopped timer.
Elapsed(t) == IF t.timer_status = "Running" THEN t.now - t.since ELSE 0

timer_start(t) == [t EXCEPT !.timer_status = "Running", !.since = t.now]

\* timer_stop that does not count the run it ends.
timer_stop_forgetting(t) == [t EXCEPT !.timer_status = "Stopped"]

timer_stop(t) ==
    [t EXCEPT !.total_elapsed = @ + Elapsed(t), !.timer_status = "Stopped"]

timer_toggle(t) ==
    IF t.timer_status = "Stopped" THEN timer_start(t) ELSE timer_stop(t)

timer_reset(t) == [timer_stop(t) EXCEPT !.total_elapsed = 0]

get_time(t) ==
    LET total_secs == t.total_elapsed + Elapsed(t)
        seconds == total_secs % 60
        minutes == ((total_secs - seconds) % (60 * 60)) \div 60
        hours == (total_secs - (minutes * 60) - seconds) \div (60 * 60)
    IN <<AsU8(hours % 255), AsU8(minutes), AsU8(seconds)>>

\* update draws the time.
update(t) == [t EXCEPT !.shown = Some(get_time(t))]

\* The timer became t by op.
Timed(op, t) ==
    /\ timer' = [t EXCEPT !.op = op]
    /\ UNCHANGED <<tokenizer_state, parses, splits, window, threads, driver,
                   context>>
    /\ UNCHANGED <<profile, entry, stack, pc, result, doc, fed, last, hist,
                   overflow_checks>>

TimerInit ==
    /\ timer = NewTimer
    /\ tokenizer_state = NoTokenizer
    /\ parses = NoParses
    /\ splits = NoSplits
    /\ window = NoWindow
    /\ threads = NoThreads
    /\ driver = NoDriver
    /\ context = NoContext
    /\ profile = "timer"
    /\ entry = "lexer"
    /\ overflow_checks = TRUE
    /\ stack = <<Frame(Lexer, <<>>, TRUE)>>
    /\ pc = "idle"
    /\ result = "None"
    /\ doc = None
    /\ fed = 0
    /\ last = NoLast
    /\ hist = NoHist

\* Time passes.
Tick ==
    /\ timer # NoTimer
    /\ timer.ticks < MaxTicks
    /\ \E d \in Steps :
         Timed("tick", [timer EXCEPT !.now = @ + d, !.ticks = @ + 1])

\* The key Space.
TimerToggle ==
    /\ timer # NoTimer
    /\ Timed("timer_toggle", timer_toggle(timer))

\* The key R.
TimerReset ==
    /\ timer # NoTimer
    /\ Timed("timer_reset", timer_reset(timer))

TimerStart ==
    /\ timer # NoTimer
    /\ Timed("timer_start", timer_start(timer))

TimerStop ==
    /\ timer # NoTimer
    /\ Timed("timer_stop", timer_stop(timer))

\* The render loop.
Update ==
    /\ timer # NoTimer
    /\ Timed("update", update(timer))

TimerNext ==
    \/ Tick
    \/ TimerToggle
    \/ TimerReset
    \/ TimerStart
    \/ TimerStop
    \/ Update

TimerSpec == TimerInit /\ [][TimerNext]_vars

----------------------------------------------------------------------------
(* The crossterm context (backends/crossterm/mod.rs).  The slides of a     *)
(* deck are numbers, as for the SDL window.                                *)

\* internal_get_context.  op is the last method called and drawn the slide
\* the last render drew, if it drew one.
NewContext ==
    [slide_id |-> 0, slides |-> <<>>, slides_changed |-> TRUE,
     pc |-> "ready", op |-> "new", drawn |-> None]

Context_set_slides(c, slides) ==
    [c EXCEPT !.slides = slides, !.slides_changed = TRUE]

Min(a, b) == IF a <= b THEN a ELSE b

\* manage_inputs on one event: a key n, a key p, or a resize.
\* `self.slides.slides.len() - 1` underflows without slides.
manage_inputs(c, evt) ==
    CASE evt = "n" ->
           IF c.slides = <<>> /\ overflow_checks
           THEN [c EXCEPT !.pc = "panicked"]
           ELSE [c EXCEPT
                   !.slide_id =
                       Min(c.slide_id + 1,
                           IF c.slides = <<>> THEN UsizeMax
                           ELSE Len(c.slides) - 1),
                   !.slides_changed = TRUE]
      [] evt = "p" ->
           [c EXCEPT !.slide_id = IF c.slide_id > 0 THEN c.slide_id - 1 ELSE 0,
                     !.slides_changed = TRUE]
      [] OTHER -> [c EXCEPT !.slides_changed = TRUE]

\* render: `self.slides.slides.get(self.slide_id)` is drawn if it is there.
render(c) ==
    [c EXCEPT
       !.drawn = IF ~c.slides_changed THEN @
                 ELSE IF c.slide_id < Len(c.slides)
                 THEN Some(c.slides[c.slide_id + 1]) ELSE None,
       !.slides_changed = FALSE]

\* The context became c by op.
Handled(op, c) ==
    /\ context' = [c EXCEPT !.op = op]
    /\ UNCHANGED <<tokenizer_state, parses, splits, window, timer, threads,
                   driver>>
    /\ UNCHANGED <<profile, entry, stack, pc, result, doc, fed, last, hist,
                   overflow_checks>>

ContextInit ==
    /\ context = NewContext
    /\ overflow_checks \in BOOLEAN
    /\ tokenizer_state = NoTokenizer
    /\ parses = NoParses
    /\ splits = NoSplits
    /\ window = NoWindow
    /\ timer = NoTimer
    /\ threads = NoThreads
    /\ driver = NoDriver
    /\ profile = "context"
    /\ entry = "lexer"
    /\ stack = <<Frame(Lexer, <<>>, TRUE)>>
    /\ pc = "idle"
    /\ result = "None"
    /\ doc = None
    /\ fed = 0
    /\ last = NoLast
    /\ hist = NoHist

\* The event loop hands over a document.
ContextSetSlides ==
    /\ context.pc = "ready"
    /\ \E slides \in Decks :
         Handled("set_slides", Context_set_slides(context, slides))

\* An event of the terminal.  Without overflow checks and without slides
\* the index grows at each n; the model follows it up to MaxDeck.
ManageInputs ==
    /\ context.pc = "ready"
    /\ context.slide_id < MaxDeck
    /\ \E evt \in {"n", "p", "resize"} :
         Handled(evt, manage_inputs(context, evt))

Render ==
    /\ context.pc = "ready"
    /\ Handled("render", render(context))

ContextNext ==
    \/ ContextSetSlides
    \/ ManageInputs
    \/ Render

ContextSpec == ContextInit /\ [][ContextNext]_vars

----------------------------------------------------------------------------
(* The line-by-line parser (parser.rs): create_slides and, of TextParser,  *)
(* what the lines below need.  A line is the sequence of its words; a      *)
(* slide is the sequence of its sections, and a section, here always a     *)
(* text, the sequence of the words put into it.                            *)

\* The most lines of a file.
MaxLines == 3

\* A line the reader cannot decode: `line?` returns its error.
Undecodable == <<"invalid">>

Words == {":sl", ":tb", "a", "b"}

Lines ==
    {<<>>, <<"#">>, Undecodable}
        \cup {<<w>> : w \in Words}
        \cup {<<a, b>> : a \in {":sl", ":tb"}, b \in Words}

LegacyFiles == UNION {[1..n -> Lines] : n \in 0..MaxLines}

TextParser_new ==
    [slideshow |-> <<>>, which_section |-> "None", current_slide |-> None]

TextParser_take(tp) ==
    IF IsSome(tp.current_slide)
    THEN Append(tp.slideshow, Unwrap(tp.current_slide))
    ELSE tp.slideshow

\* The loop of parse_line over the words of a line, from the word at i on:
\* the parser it leaves and what it returns.
RECURSIVE TextParser_tokens(_, _, _)
TextParser_tokens(tp, inp, i) ==
    IF i > Len(inp) THEN [tp |-> tp, res |-> "Ok"]
    ELSE IF inp[i] = ":sl"
    THEN TextParser_tokens(
             [tp EXCEPT
                !.slideshow = IF IsSome(tp.current_slide)
                              THEN Append(@, Unwrap(tp.current_slide)) ELSE @,
                !.current_slide = Some(<<>>),
                !.which_section = "Slide"],
             inp, i + 1)
    ELSE IF inp[i] = ":tb"
    THEN IF ~IsSome(tp.current_slide)
         THEN [tp |-> [tp EXCEPT !.which_section = "Text"],
               res |-> "Please create a slide first."]
         ELSE TextParser_tokens(
                  [tp EXCEPT
                     !.which_section = "Text",
                     !.current_slide = Some(Append(Unwrap(@), <<>>))],
                  inp, i + 1)
    ELSE IF ~IsSome(tp.current_slide)
    THEN [tp |-> tp, res |-> "Please create a slide first."]
    ELSE IF Unwrap(tp.current_slide) = <<>>
    THEN [tp |-> tp, res |-> "Panic"]
    ELSE LET slide == Unwrap(tp.current_slide)
             last_section == Len(slide)
         IN TextParser_tokens(
                [tp EXCEPT
                   !.current_slide =
                       Some([slide EXCEPT ![last_section] = Append(@, inp[i])])],
                inp, i + 1)

TextParser_parse_line(tp, inp) ==
    IF inp = <<>> \/ inp[1] = "#" THEN [tp |-> tp, res |-> "Ok"]
    ELSE TextParser_tokens(tp, inp, 1)

\* create_slides starts on a file.  applied keeps the numbers of the lines
\* given to parse_line, from 1, and returned what parse_line returned.
NewDriver(file) ==
    [lines |-> file, line_num |-> 0, tp |-> TextParser_new, pc |-> "reading",
     result |-> None, applied |-> <<>>, returned |-> <<>>]

\* One turn of the loop of create_slides that goes on after a line failed.
create_slides_line_lenient(d) ==
    LET line == d.lines[d.line_num + 1]
        got == TextParser_parse_line(d.tp, line)
    IN IF line = Undecodable
       THEN [d EXCEPT !.pc = "failed", !.result = Some(<<"io">>)]
       ELSE [d EXCEPT
               !.tp = got.tp,
               !.applied = Append(@, d.line_num + 1),
               !.returned = Append(@, got.res),
               !.line_num = @ + 1]

\* One turn of the loop of create_slides: the next line is read and parsed.
create_slides_line(d) ==
    LET line == d.lines[d.line_num + 1]
        got == TextParser_parse_line(d.tp, line)
        seen == [d EXCEPT
                   !.tp = got.tp,
                   !.applied = Append(@, d.line_num + 1),
                   !.returned = Append(@, got.res)]
    IN IF line = Undecodable
       THEN [d EXCEPT !.pc = "failed", !.result = Some(<<"io">>)]
       ELSE IF got.res = "Panic" THEN [seen EXCEPT !.pc = "panicked"]
       ELSE IF got.res # "Ok"
       THEN [seen EXCEPT
               !.pc = "failed",
               !.result = Some(<<"Line", d.line_num + 1, got.res>>)]
       ELSE [seen EXCEPT !.line_num = @ + 1]

\* The end of create_slides: the lines are over.
create_slides_end(d) ==
    [d EXCEPT !.pc = "done", !.result = Some(<<"Ok", TextParser_take(d.tp)>>)]

DriverInit ==
    /\ \E file \in LegacyFiles : driver = NewDriver(file)
    /\ tokenizer_state = NoTokenizer
    /\ parses = NoParses
    /\ splits = NoSplits
    /\ window = NoWindow
    /\ timer = NoTimer
    /\ threads = NoThreads
    /\ context = NoContext
    /\ profile = "driver"
    /\ entry = "lexer"
    /\ overflow_checks = TRUE
    /\ stack = <<Frame(Lexer, <<>>, TRUE)>>
    /\ pc = "idle"
    /\ result = "None"
    /\ doc = None
    /\ fed = 0
    /\ last = NoLast
    /\ hist = NoHist

\* The driver became d.
Driven(d) ==
    /\ driver' = d
    /\ UNCHANGED <<tokenizer_state, parses, splits, window, timer, threads,
                   context>>
    /\ UNCHANGED <<profile, entry, stack, pc, result, doc, fed, last, hist,
                   overflow_checks>>

CreateSlidesLine ==
    /\ driver.pc = "reading"
    /\ driver.line_num < Len(driver.lines)
    /\ Driven(create_slides_line(driver))

CreateSlidesEnd ==
    /\ driver.pc = "reading"
    /\ driver.line_num = Len(driver.lines)
    /\ Driven(create_slides_end(driver))

DriverNext ==
    \/ CreateSlidesLine
    \/ CreateSlidesEnd

DriverSpec == DriverInit /\ [][DriverNext]_vars

----------------------------------------------------------------------------
(* The threads of main (main.rs): the watcher thread, the parser thread    *)
(* and the event loop, with the three channels between them.  A document   *)
(* is known by the number of the parse that made it.                       *)

\* The most changes of the file the watcher reports.
MaxChanges == 3

\* What parse_file comes to: a document, an error, or a panic in a handler.
ParseOutcomes == {"Ok", "Err", "Panic"}

\* main before its event loop: the channels are made, the two threads wait,
\* and the first request is sent.  watcher_rx, request_update_rx and
\* send_slides_rx are what is in the channels; changes counts the changes
\* of the file, requested the requests sent, parsed keeps what each parse
\* came to, and shown is the document the window has (0: none yet).
NewThreads ==
    [watcher_rx |-> 0, request_update_rx |-> 1, send_slides_rx |-> <<>>,
     parser |-> "waiting", watcher |-> "waiting", changes |-> 0,
     requested |-> 1, parsed |-> <<>>, shown |-> 0, pc |-> "running"]

\* One turn of the loop of the parser thread: a request is taken and the
\* file parsed, with the outcome slides.
parser_thread(t, slides) ==
    LET parse == Len(t.parsed) + 1
        taken == [t EXCEPT !.request_update_rx = @ - 1,
                           !.parsed = Append(@, slides)]
    IN IF slides = "Panic" THEN [taken EXCEPT !.parser = "dead"]
       ELSE IF slides = "Err" THEN taken
       ELSE [taken EXCEPT !.send_slides_rx = Append(@, parse)]

\* One turn of the loop of the watcher thread: `send(()).expect(..)` panics
\* once the parser thread, which holds the receiver, is gone.
watcher_thread(t) ==
    IF t.parser = "dead"
    THEN [t EXCEPT !.watcher_rx = @ - 1, !.watcher = "dead"]
    ELSE [t EXCEPT !.watcher_rx = @ - 1,
                   !.request_update_rx = @ + 1,
                   !.requested = @ + 1]

\* The start of a turn of the event loop: `try_recv` and set_slides.
event_loop(t) ==
    IF t.send_slides_rx = <<>> THEN t
    ELSE [t EXCEPT !.shown = Head(t.send_slides_rx),
                   !.send_slides_rx = Tail(@)]

\* The threads became t.
Threaded(t) ==
    /\ threads' = t
    /\ UNCHANGED <<tokenizer_state, parses, splits, window, timer, driver,
                   context>>
    /\ UNCHANGED <<profile, entry, stack, pc, result, doc, fed, last, hist,
                   overflow_checks>>

ThreadsInit ==
    /\ threads = NewThreads
    /\ tokenizer_state = NoTokenizer
    /\ parses = NoParses
    /\ splits = NoSplits
    /\ window = NoWindow
    /\ timer = NoTimer
    /\ driver = NoDriver
    /\ context = NoContext
    /\ profile = "threads"
    /\ entry = "lexer"
    /\ overflow_checks = TRUE
    /\ stack = <<Frame(Lexer, <<>>, TRUE)>>
    /\ pc = "idle"
    /\ result = "None"
    /\ doc = None
    /\ fed = 0
    /\ last = NoLast
    /\ hist = NoHist

\* The file is written: the raw watcher sends an event.
FileChanged ==
    /\ threads # NoThreads
    /\ threads.changes < MaxChanges
    /\ Threaded([threads EXCEPT !.changes = @ + 1, !.watcher_rx = @ + 1])

WatcherThread ==
    /\ threads # NoThreads
    /\ threads.watcher = "waiting"
    /\ threads.watcher_rx > 0
    /\ Threaded(watcher_thread(threads))

ParserThread ==
    /\ threads # NoThreads
    /\ threads.parser = "waiting"
    /\ threads.request_update_rx > 0
    /\ \E slides \in ParseOutcomes : Threaded(parser_thread(threads, slides))

EventLoop ==
    /\ threads # NoThreads
    /\ Threaded(event_loop(threads))

ThreadsNext ==
    \/ FileChanged
    \/ WatcherThread
    \/ ParserThread
    \/ EventLoop

ThreadsSpec == ThreadsInit /\ [][ThreadsNext]_vars

----------------------------------------------------------------------------
(* Properties.                                                             *)

\* The first token of the running slice and the tokens known after it.
Tok == Head(top.tokens)

Rem == Tail(top.tokens)

\* The kinds of the sections of each slide of a document.
Kinds(slides) ==
    [i \in 1..Len(slides) |->
       [j \in 1..Len(slides[i].sections) |->
          Unwrap(slides[i].sections[j].sec_main).kind]]

\* The slides a sequence of accepted :sl / :tb / :fg directives describes:
\* one per "sl", holding the kinds of the "tb" and "fg" up to the next "sl".
RECURSIVE Described(_)
Described(events) ==
    IF events = <<>> THEN <<>>
    ELSE LET n == Len(events)
             before == Described(SubSeq(events, 1, n - 1))
             m == Len(before)
         IN CASE events[n] = "sl" -> Append(before, <<>>)
              [] events[n] = "tb" ->
                   [before EXCEPT ![m] = Append(@, "Text")]
              [] events[n] = "fg" ->
                   [before EXCEPT ![m] = Append(@, "Figure")]

\* C1: when every read_tokens call returned Ok and no :im was met, the
\* document take returns has exactly one slide per :sl, in order, and each
\* slide holds exactly the sections of the :tb / :fg that followed its :sl,
\* in order; the slide still open is the last one.
C1_OneSlidePerDirective ==
    (pc = "taken" /\ ~hist.import /\ ~hist.err)
      => Kinds(Unwrap(doc).slides) = Described(hist.events)

C1_Witness ==
    /\ pc = "taken" /\ ~hist.import /\ ~hist.err
    /\ hist.events = <<"sl", "sl", "tb", "fg">>
    /\ Kinds(Unwrap(doc).slides) = <<<<>>, <<"Text", "Figure">>>>

\* C2: the nested parse of :im B returning, the importing lexer's slides are
\* the slides it had, then the slide that was open before :im (if any), then
\* B's slides in B's order, and no slide is open; a later :sl puts nothing
\* before them.
C2_ImportSplice ==
    [][/\ (pc = "running" /\ depth > 1 /\ top.tokens = <<>>) =>
            LET pre == stack[depth - 1].pre
                after == stack'[depth - 1].lexer
            IN /\ after.slideshow.slides =
                    pre.slideshow.slides
                      \o (IF pre.slide = None THEN <<>> ELSE pre.slide)
                      \o take(top.lexer).slides
               /\ after.slide = None
       /\ (Dispatch("Slide") /\ depth = 1) =>
            /\ Len(lexer'.slideshow.slides) >= Len(lexer.slideshow.slides)
            /\ SubSeq(lexer'.slideshow.slides, 1,
                      Len(lexer.slideshow.slides)) = lexer.slideshow.slides
      ]_vars

\* A = :sl :tb :im B :sl gives A1, B1, B2, A2.
C2_Witness ==
    /\ pc = "taken" /\ hist.import /\ ~hist.err
    /\ Len(Unwrap(doc).slides) = 4
    /\ Kinds(Unwrap(doc).slides) = <<<<"Text">>, <<"Text">>, <<>>, <<>>>>
    /\ Unwrap(doc).slides[3].bg_color = Some(Color(255, 0, 0, 255))
    /\ Unwrap(doc).slides[2].sections[1].sec_main[1].text = <<"b", "\n">>

\* The text with every backslash that stands right before a colon removed.
Unescaped(s) ==
    LET keep == {i \in 1..Len(s) :
                   ~(s[i] = "\\" /\ i < Len(s) /\ s[i + 1] = ":")}
        nth(k) == CHOOSE i \in keep : Cardinality({j \in keep : j < i}) = k - 1
    IN [k \in 1..Cardinality(keep) |-> s[nth(k)]]

\* The lexer with el added as one line to the text of the last section of
\* its open slide.
WithLine(l, el) ==
    LET slide == Unwrap(l.slide)
        n == Len(slide.sections)
        main == Unwrap(slide.sections[n].sec_main)
    IN [l EXCEPT
          !.slide =
             Some([slide EXCEPT
                     !.sections[n].sec_main =
                        Some([main EXCEPT
                                !.text = @ \o Unescaped(el) \o <<"\n">>])])]

HasLastSection(l) == l.slide # None /\ Unwrap(l.slide).sections # <<>>

\* C3: a TextLine met in state Text, the open slide having a last section,
\* adds its text (spaces kept, each \: turned into :) and one newline to
\* that section's text, consumes no other token and changes nothing else.
C3_TextLineAppends ==
    [][(Dispatch("TextLine") /\ top.lexer.state = "Text"
          /\ HasLastSection(top.lexer)) =>
         /\ last'.res = "Ok"
         /\ top'.lexer = WithLine(top.lexer, Tok.text)
         /\ top'.lexer.state = "Text"
         /\ top'.tokens = Rem
         /\ depth' = depth
      ]_vars

C3_Witness ==
    /\ last.sym = "TextLine" /\ last.state = "Text" /\ last.res = "Ok"
    /\ HasLastSection(top.lexer)
    /\ Unwrap(LastSection(top.lexer).sec_main).text
         = <<"\n", " ", ":", "\\", ":", " ", "\n">>

\* C4: the handler of a token of the top-level slice returning an error,
\* read_tokens returns the error at once: the tokens after it are dropped,
\* the lexer stays as the handlers left it, and parse_text returns no
\* document.
C4_ErrorStops ==
    /\ [][(pc = "running" /\ depth = 1 /\ Ready(top)
             /\ Handle(top.lexer, Tok, Rem).res = "Err") =>
            /\ pc' = "idle" /\ result' = "Err"
            /\ top'.tokens = <<>>
            /\ lexer' = Handle(top.lexer, Tok, Rem).lexer
            /\ doc' = doc
         ]_vars
    /\ []((entry = "parse_text" /\ result = "Err") => doc = None)

C4_Witness ==
    /\ entry = "parse_text" /\ result = "Err" /\ pc = "idle"
    /\ last.res = "Err" /\ last.pending > 0 /\ last.depth = 1
    /\ lexer.slide # None /\ lexer.slideshow.slides # <<>>
    /\ doc = None

\* The directive reads or writes the last section of the open slide: :ps and
\* :rt always, :sz in Text or Figure, :fc and a text line in Text.
Targets(sym, l) ==
    CASE sym \in {"Position", "Rotation"} -> TRUE
      [] sym = "Size" -> l.state \in {"Text", "Figure"}
      [] sym \in {"Fontcolor", "TextLine"} -> l.state = "Text"
      [] OTHER -> FALSE

\* C5: in any read_tokens call on a lexer, earlier calls having failed or
\* not, a directive that targets the last section, met when no slide is open
\* or the open slide has no section, returns an error: the call ends with
\* Err, it does not panic and it does not go on as if nothing happened.
C5_NoTargetIsError ==
    [][(pc = "running" /\ Ready(top) /\ Targets(Tok.symbol, top.lexer)
          /\ ~HasLastSection(top.lexer)) =>
         /\ last'.res = "Err"
         /\ pc' = "idle" /\ result' = "Err"
      ]_vars

\* C6: :fg with the path of a file that does not exist returns an error: no
\* panic, and the open slide (if any) gets no section.
C6_MissingFigureIsError ==
    [][(Dispatch("Figure") /\ Rem # <<>> /\ IsString(Rem[1])
          /\ ~Exists(Rem[1].text)) =>
         /\ last'.res = "Err"
         /\ pc' = "idle" /\ result' = "Err"
         /\ top'.lexer.slide = top.lexer.slide
      ]_vars

\* The last section of the open slide is a figure.
HasLastFigure(l) ==
    /\ HasLastSection(l)
    /\ LastSection(l).sec_main # None
    /\ Unwrap(LastSection(l).sec_main).kind = "Figure"

\* The sections of the open slide, none when no slide is open.
Sections(l) == IF l.slide = None THEN <<>> ELSE Unwrap(l.slide).sections

\* C7: :rt in a state other than Figure returns an error and leaves the
\* lexer, all sections included, as it was; :rt in state Figure before a
\* Number, the last section of the open slide being a figure, sets the
\* rotation of that section to the number, changes nothing else and consumes
\* the number only; :rt is accepted in no other case.
C7_RotationOnlyInFigure ==
    [][Dispatch("Rotation") =>
         LET l == top.lexer
             n == Len(Sections(l))
         IN /\ l.state # "Figure" =>
                 /\ last'.res = "Err"
                 /\ pc' = "idle" /\ result' = "Err"
                 /\ lexer' = lexer
            /\ (l.state = "Figure" /\ HasLastFigure(l) /\ Rem # <<>>
                  /\ IsNumber(Rem[1])) =>
                 /\ last'.res = "Ok"
                 /\ top'.lexer =
                      [l EXCEPT
                         !.slide[1].sections[n].sec_main[1].rotation =
                            Rem[1].num]
                 /\ top'.tokens = Tail(Rem)
            /\ last'.res = "Ok" =>
                 l.state = "Figure" /\ HasLastFigure(l) /\ Rem # <<>>
                   /\ IsNumber(Rem[1])
      ]_vars

\* :sl :tb :fg i :rt 90 turns the figure and leaves the text section alone.
C7_Witness ==
    /\ last.sym = "Rotation" /\ last.state = "Figure" /\ last.res = "Ok"
    /\ Len(Sections(top.lexer)) = 2
    /\ Sections(top.lexer)[1] = [Section EXCEPT !.sec_main = Some(SectionText)]
    /\ Sections(top.lexer)[2].sec_main[1].rotation = F32(90)
    /\ Sections(top.lexer)[2].position = None
    /\ top.tokens = <<>>

\* The handler's error ends the call and leaves the top-level lexer as it
\* was.
Refused ==
    /\ last'.res = "Err"
    /\ pc' = "idle" /\ result' = "Err"
    /\ lexer' = lexer

\* The handler accepted the directive with k argument tokens: the lexer
\* becomes l2 and the loop goes on after the arguments.
Accepted(l2, k) ==
    /\ last'.res = "Ok"
    /\ top'.lexer = l2
    /\ top'.tokens = SubSeq(Rem, k + 1, Len(Rem))

TwoNumbers(tokens) ==
    Len(tokens) >= 2 /\ IsNumber(tokens[1]) /\ IsNumber(tokens[2])

\* C8: :ps is accepted only in state Text or Figure before two Numbers; it
\* then sets the position of the last section of the open slide to (x, y),
\* changes nothing else and consumes the two numbers; with a last section
\* to set it is always accepted there; in state None, General, Slide or
\* Import, and with fewer than two Numbers after it, it returns an error.
C8_PositionContract ==
    [][Dispatch("Position") =>
         LET l == top.lexer
             n == Len(Sections(l))
             set == [l EXCEPT
                       !.slide[1].sections[n].position =
                          Some(Vec2(Rem[1].num, Rem[2].num))]
         IN /\ last'.res = "Ok" =>
                 /\ l.state \in {"Text", "Figure"}
                 /\ TwoNumbers(Rem)
                 /\ HasLastSection(l)
                 /\ Accepted(set, 2)
            /\ (l.state \in {"Text", "Figure"} /\ TwoNumbers(Rem)
                  /\ HasLastSection(l)) => last'.res = "Ok"
            /\ (l.state \in {"None", "General", "Slide", "Import"}
                  \/ ~TwoNumbers(Rem)) => Refused
      ]_vars

\* :sl :tb :tb :ps 1 2 places the second section only.
C8_Witness ==
    /\ last.sym = "Position" /\ last.state = "Text" /\ last.res = "Ok"
    /\ Len(Sections(top.lexer)) = 2
    /\ Sections(top.lexer)[1].position = None
    /\ Sections(top.lexer)[2].position = Some(Vec2(F32(1), F32(2)))
    /\ Sections(top.lexer)[2].size = None
    /\ top.tokens = <<>>

\* C9: :sz in state General sets the document's default font size and
\* nothing else, open slide or not; in state Text or Figure it sets the size
\* of the last section of the open slide and nothing else, the document's
\* default included; in state None, Slide or Import it returns an error.
C9_SizeTarget ==
    [][Dispatch("Size") =>
         LET l == top.lexer
             n == Len(Sections(l))
             r == get_size(Rem)
         IN /\ l.state \in {"None", "Slide", "Import"} => Refused
            /\ l.state = "General" =>
                 IF r.ok
                 THEN Accepted([l EXCEPT !.slideshow.font_size = Some(r.size)],
                               r.skip)
                 ELSE Refused
            /\ (l.state \in {"Text", "Figure"} /\ HasLastSection(l)) =>
                 IF r.ok
                 THEN Accepted([l EXCEPT
                                  !.slide[1].sections[n].size = Some(r.size)],
                               r.skip)
                 ELSE Refused
            /\ last'.res = "Ok" =>
                 \/ l.state = "General"
                 \/ l.state \in {"Text", "Figure"} /\ HasLastSection(l)
      ]_vars

\* :sl :tb :tb :sz 1 2 sizes the second section; the document has no
\* default size.
C9_Witness ==
    /\ last.sym = "Size" /\ last.state = "Text" /\ last.res = "Ok"
    /\ Len(Sections(top.lexer)) = 2
    /\ Sections(top.lexer)[1].size = None
    /\ Sections(top.lexer)[2].size = Some(Vec2(F32(1), F32(2)))
    /\ top.lexer.slideshow.font_size = None
    /\ top.tokens = <<>>

\* C10: :fc in state General sets the document's default font color and
\* nothing else; in state Text it sets the color of the last (text) section
\* of the open slide and nothing else; in state None, Slide, Figure or
\* Import it returns an error.
C10_FontcolorTarget ==
    [][Dispatch("Fontcolor") =>
         LET l == top.lexer
             n == Len(Sections(l))
             c == get_color(Rem)
         IN /\ l.state \in {"None", "Slide", "Figure", "Import"} => Refused
            /\ l.state = "General" =>
                 IF c.ok
                 THEN Accepted([l EXCEPT !.slideshow.font_col = Some(c.color)],
                               c.skip)
                 ELSE Refused
            /\ (l.state = "Text" /\ HasLastSection(l)) =>
                 IF c.ok
                 THEN Accepted([l EXCEPT
                                  !.slide[1].sections[n].sec_main[1].color =
                                     Some(c.color)],
                               c.skip)
                 ELSE Refused
            /\ last'.res = "Ok" =>
                 \/ l.state = "General"
                 \/ l.state = "Text" /\ HasLastSection(l)
      ]_vars

\* :sl :tb :tb :fc red colors the second section; the first section and
\* the document's default stay without a color.
C10_Witness ==
    /\ last.sym = "Fontcolor" /\ last.state = "Text" /\ last.res = "Ok"
    /\ Len(Sections(top.lexer)) = 2
    /\ Sections(top.lexer)[1].sec_main[1].color = None
    /\ Sections(top.lexer)[2].sec_main[1].color = Some(Color(255, 0, 0, 255))
    /\ top.lexer.slideshow.font_col = None
    /\ top.tokens = <<>>

\* C11: :bc in state General sets the document's default background color
\* and nothing else; in state Slide it sets the background color of the open
\* slide and nothing else, and that slide has no section yet; in state None,
\* Text, Figure or Import it returns an error.
C11_BackgroundTarget ==
    [][Dispatch("BackGroundColor") =>
         LET l == top.lexer
             c == get_color(Rem)
         IN /\ l.state \in {"None", "Text", "Figure", "Import"} => Refused
            /\ l.state = "General" =>
                 IF c.ok
                 THEN Accepted([l EXCEPT !.slideshow.bg_col = Some(c.color)],
                               c.skip)
                 ELSE Refused
            /\ l.state = "Slide" =>
                 /\ l.slide # None /\ Sections(l) = <<>>
                 /\ IF c.ok
                    THEN Accepted([l EXCEPT
                                     !.slide[1].bg_color = Some(c.color)],
                                  c.skip)
                    ELSE Refused
      ]_vars

\* :sl :sl :bc red paints the second slide; the first slide and the document
\* keep no background.
C11_Witness ==
    /\ last.sym = "BackGroundColor" /\ last.state = "Slide" /\ last.res = "Ok"
    /\ top.lexer.slide = Some([Slide EXCEPT
                                 !.bg_color = Some(Color(255, 0, 0, 255))])
    /\ top.lexer.slideshow.slides = <<Slide>>
    /\ top.lexer.slideshow.bg_col = None
    /\ top.tokens = <<>>

\* The lexer with the size :sz sets in its state: the document's default
\* in General, the size of the last section of the open slide otherwise.
WithSize(l, size) ==
    IF l.state = "General"
    THEN [l EXCEPT !.slideshow.font_size = Some(size)]
    ELSE [l EXCEPT
            !.slide[1].sections[Len(Sections(l))].size = Some(size)]

\* C12: where :sz is accepted (General, or Text / Figure with a last
\* section), two Numbers after it give the size (x, y) and are both
\* consumed; else a first Number s gives (s/10*0.012, s/10*0.06) and is
\* consumed alone; no token, or a first token that is no Number, is an error.
C12_SizeArguments ==
    [][(Dispatch("Size")
          /\ \/ top.lexer.state = "General"
             \/ top.lexer.state \in {"Text", "Figure"}
                  /\ HasLastSection(top.lexer)) =>
         LET l == top.lexer
             s == Rem[1].num
         IN IF TwoNumbers(Rem)
            THEN Accepted(WithSize(l, Vec2(Rem[1].num, Rem[2].num)), 2)
            ELSE IF Rem # <<>> /\ IsNumber(Rem[1])
            THEN Accepted(WithSize(l, Vec2((s * 12) \div (10 * 1000),
                                           (s * 60) \div (10 * 1000))),
                          1)
            ELSE Refused
      ]_vars

\* :ge :sz 40 and nothing after it: font_size is (0.048, 0.24).
C12_Witness ==
    /\ last.sym = "Size" /\ last.state = "General" /\ last.res = "Ok"
    /\ last.pending = 1
    /\ lexer.slideshow.font_size = Some(Vec2(480, 2400))
    /\ lexer.slideshow.font_size = Some(Vec2((48 * Unit) \div 1000,
                                             (24 * Unit) \div 100))

\* The color directive sym is accepted in the state of l.
TakesColor(sym, l) ==
    IF sym = "Fontcolor"
    THEN l.state = "General" \/ (l.state = "Text" /\ HasLastSection(l))
    ELSE l.state = "General" \/ (l.state = "Slide" /\ l.slide # None)

\* The lexer with the color the directive sym sets in its state.
WithColor(sym, l, c) ==
    CASE l.state = "General" /\ sym = "Fontcolor" ->
           [l EXCEPT !.slideshow.font_col = Some(c)]
      [] l.state = "General" /\ sym = "BackGroundColor" ->
           [l EXCEPT !.slideshow.bg_col = Some(c)]
      [] l.state = "Text" ->
           [l EXCEPT
              !.slide[1].sections[Len(Sections(l))].sec_main[1].color =
                 Some(c)]
      [] OTHER -> [l EXCEPT !.slide[1].bg_color = Some(c)]

\* The token is a Number with an integral value from 0 to 255.
IsChannel(t) == IsNumber(t) /\ \E k \in 0..255 : t.num = k * Unit

FourChannels(tokens) ==
    Len(tokens) >= 4 /\ \A i \in 1..4 : IsChannel(tokens[i])

\* C13: where a color directive is accepted, four Numbers after it, each
\* integral and from 0 to 255, give the color (r, g, b, a) and are all
\* consumed; otherwise a first token that is a String resolving as a color
\* gives that color and is consumed alone; every other argument list is an
\* error and the lexer keeps its colors.
C13_ColorArguments ==
    [][((Dispatch("Fontcolor") \/ Dispatch("BackGroundColor"))
          /\ TakesColor(Tok.symbol, top.lexer)) =>
         LET l == top.lexer
         IN IF FourChannels(Rem)
            THEN Accepted(WithColor(Tok.symbol, l,
                                    Color(Rem[1].num \div Unit,
                                          Rem[2].num \div Unit,
                                          Rem[3].num \div Unit,
                                          Rem[4].num \div Unit)),
                          4)
            ELSE IF Rem # <<>> /\ IsString(Rem[1])
                      /\ match_string_color(Rem[1].text) # None
            THEN Accepted(WithColor(Tok.symbol, l,
                                    Unwrap(match_string_color(Rem[1].text))),
                          1)
            ELSE Refused
      ]_vars

\* :bc 300 255 0 0 on the slide opened by :sl is refused: the slide keeps
\* no background.
C13_Witness ==
    /\ last.sym = "BackGroundColor" /\ last.state = "Slide"
    /\ last.res = "Err" /\ last.pending = 4
    /\ result = "Err"
    /\ lexer.slide = Some(Slide)
    /\ lexer.slideshow = Slideshow

HexDigits ==
    {"0", "1", "2", "3", "4", "5", "6", "7", "8", "9",
     "a", "b", "c", "d", "e", "f", "A", "B", "C", "D", "E", "F"}

\* # followed by exactly 8 hexadecimal digits.
IsHexColor(str) ==
    /\ Len(str) = 9
    /\ str[1] = "#"
    /\ \A i \in 2..9 : str[i] \in HexDigits

ColorNames ==
    {<<"a", "c", "q", "u", "a">>, <<"b", "l", "a", "c", "k">>,
     <<"b", "l", "u", "e">>, <<"f", "u", "c", "h", "s", "i", "a">>,
     <<"g", "r", "a", "y">>, <<"g", "r", "e", "e", "n">>,
     <<"l", "i", "m", "e">>, <<"m", "a", "r", "o", "o", "n">>,
     <<"n", "a", "v", "y">>, <<"o", "l", "i", "v", "e">>,
     <<"p", "u", "r", "p", "l", "e">>, <<"r", "e", "d">>,
     <<"s", "i", "l", "v", "e", "r">>, <<"t", "e", "a", "l">>,
     <<"w", "h", "i", "t", "e">>, <<"y", "e", "l", "l", "o", "w">>}

\* One of the 16 names, whatever the case of its letters.
IsColorName(str) == to_lowercase(str) \in ColorNames

\* C14: a String given as the color of an accepted color directive resolves
\* if and only if it is # followed by exactly 8 hexadecimal digits, the
\* color being the four digit pairs, or is one of the 16 color names in any
\* case, the color being the name's entry with alpha 255; any other string
\* is an error.
C14_ColorStrings ==
    [][((Dispatch("Fontcolor") \/ Dispatch("BackGroundColor"))
          /\ TakesColor(Tok.symbol, top.lexer)
          /\ Rem # <<>> /\ IsString(Rem[1])) =>
         LET l == top.lexer
             str == Rem[1].text
             named == CHOOSE e \in NamedColors : e.name = to_lowercase(str)
         IN /\ Cardinality(ColorNames) = 16
            /\ IF IsHexColor(str)
               THEN Accepted(WithColor(Tok.symbol, l,
                                       Color(HexPair(str, 1), HexPair(str, 3),
                                             HexPair(str, 5), HexPair(str, 7))),
                             1)
               ELSE IF IsColorName(str)
               THEN /\ Accepted(WithColor(Tok.symbol, l, named.color), 1)
                    /\ named.color.a = 255
               ELSE Refused
      ]_vars

\* :fc #0305a0c1 after :sl :tb gives the section the color (3, 5, 160, 193).
C14_Witness ==
    /\ last.sym = "Fontcolor" /\ last.state = "Text" /\ last.res = "Ok"
    /\ last.pending = 1
    /\ Sections(lexer)[1].sec_main[1].color = Some(Color(3, 5, 160, 193))

\* The four-number form of a color.
FourNumbers(c) ==
    <<Number(F32(c.r)), Number(F32(c.g)), Number(F32(c.b)), Number(F32(c.a))>>

\* The entries of the color table written with the numbers the slice uses.
Spelled(tokens) ==
    {e \in NamedColors :
       Len(tokens) >= 4 /\ SubSeq(tokens, 1, 4) = FourNumbers(e.color)}

\* C15: in the same state, a color directive followed by a color name and
\* the directive followed by the four numbers of the name's table entry are
\* both accepted and leave the lexer in the same state with the same color;
\* red and 255 0 0 255 both give the color (255, 0, 0, 255).
C15_ColorParity ==
    [][((Dispatch("Fontcolor") \/ Dispatch("BackGroundColor"))
          /\ TakesColor(Tok.symbol, top.lexer)) =>
         LET l == top.lexer
             named == CHOOSE e \in NamedColors :
                         e.name = to_lowercase(Rem[1].text)
             numbers == Handle(l, Tok, FourNumbers(named.color) \o Tail(Rem))
         IN /\ (Rem # <<>> /\ IsString(Rem[1]) /\ IsColorName(Rem[1].text)) =>
                 /\ last'.res = "Ok" /\ numbers.res = "Ok"
                 /\ top'.lexer = numbers.lexer
                 /\ top'.tokens = Tail(Rem)
                 /\ numbers.skip = 4
                 /\ to_lowercase(Rem[1].text) = Red =>
                      top'.lexer =
                        WithColor(Tok.symbol, l, Color(255, 0, 0, 255))
            /\ \A e \in Spelled(Rem) :
                 LET name == Handle(l, Tok,
                                    <<String(e.name)>>
                                      \o SubSeq(Rem, 5, Len(Rem)))
                 IN /\ last'.res = "Ok" /\ name.res = "Ok"
                    /\ top'.lexer = name.lexer
                    /\ top'.tokens = SubSeq(Rem, 5, Len(Rem))
                    /\ e.name = Red =>
                         top'.lexer =
                           WithColor(Tok.symbol, l, Color(255, 0, 0, 255))
      ]_vars

\* :fc 255 0 0 255 after :ge: the document's font color is the one :fc red
\* gives.
C15_Witness ==
    /\ last.sym = "Fontcolor" /\ last.state = "General" /\ last.res = "Ok"
    /\ last.pending = 4
    /\ lexer.slideshow.font_col = Some(Color(255, 0, 0, 255))
    /\ lexer = manage_fontcolor(manage_generic(Lexer, <<>>).lexer,
                                <<String(Red)>>).lexer

IsBlank(str) == \A i \in 1..Len(str) : str[i] \in {" ", "\t"}

\* C17: outside state Text a text line made of whitespace only is a no-op:
\* it is accepted and the lexer is unchanged.
C17_BlankLineTolerated ==
    [][(Dispatch("TextLine") /\ top.lexer.state # "Text"
          /\ IsBlank(Tok.text)) =>
         Accepted(top.lexer, 0)
      ]_vars

\* C18: a String or a Number that is the first token of the slice, or that
\* the directive before it left unconsumed, makes read_tokens return an
\* error in every state, and the lexer stays as it was.
C18_BareLiteralIsError ==
    [][(Dispatch("String") \/ Dispatch("Number")) => Refused]_vars

\* :ge :sz 1 2 1: the size took two numbers and the third is an error.
C18_Witness ==
    /\ last.sym = "Number" /\ last.state = "General" /\ last.res = "Err"
    /\ result = "Err"
    /\ lexer.slideshow.font_size = Some(Vec2(F32(1), F32(2)))
    /\ fed = 5

\* C19: :tb with no slide open returns an error and adds no section (the
\* lexer changes in its state only); with a slide open it appends one Text
\* section with empty text and no size, position, color or font at the end
\* of that slide, sets state Text, changes nothing else and consumes no
\* token after it.
C19_TextBufferNeedsSlide ==
    [][Dispatch("TextBuffer") =>
         LET l == top.lexer
             empty == [size |-> None, position |-> None,
                       sec_main |-> Some([kind |-> "Text", text |-> <<>>,
                                          color |-> None, font |-> None])]
         IN IF l.slide = None
            THEN /\ last'.res = "Err"
                 /\ pc' = "idle" /\ result' = "Err"
                 /\ lexer'.slide = lexer.slide
                 /\ lexer'.slideshow = lexer.slideshow
                 /\ depth = 1 => lexer' = [l EXCEPT !.state = "Text"]
            ELSE Accepted([l EXCEPT
                             !.state = "Text",
                             !.slide[1].sections = Append(@, empty)],
                          0)
      ]_vars

\* :im B :tb: after the import no slide is open, :tb is refused and the
\* document holds the two slides of B as they were.
C19_Witness ==
    /\ last.sym = "TextBuffer" /\ last.state = "Import" /\ last.res = "Err"
    /\ last.depth = 1
    /\ result = "Err"
    /\ lexer.slide = None
    /\ Kinds(lexer.slideshow.slides) = <<<<"Text">>, <<>>>>
    /\ fed = 3

\* The read_tokens call of the top-level lexer ends with an error.
Fails ==
    /\ last'.res = "Err"
    /\ pc' = "idle" /\ result' = "Err"
    /\ Len(stack') = 1

\* The lexer as :im leaves it before it opens the file: state Import, the
\* open slide (if any) moved to the end of the document.
Flushed(l) ==
    [l EXCEPT !.state = "Import",
              !.slide = None,
              !.slideshow.slides = @ \o l.slide]

\* C20: :im returns an error, and the importing lexer gets none of the
\* file's slides, when no String follows it (the lexer changes in its state
\* only), when the file cannot be opened, and when the parse of the file
\* fails at any depth (the lexer is as :im left it before opening the
\* file); the error of a nested parse ends every enclosing parse and the
\* top-level call returns it.
C20_ImportFailure ==
    [][/\ (Dispatch("Import") /\ depth = 1
             /\ (Rem = <<>> \/ ~IsString(Rem[1]))) =>
            Fails /\ lexer' = [lexer EXCEPT !.state = "Import"]
       /\ (Dispatch("Import") /\ depth = 1
             /\ Rem # <<>> /\ IsString(Rem[1])
             /\ Rem[1].text \notin DOMAIN SlideFiles) =>
            Fails /\ lexer' = Flushed(lexer)
       /\ (pc = "running" /\ depth > 1 /\ Ready(top)
             /\ Handle(top.lexer, Tok, Rem).res = "Err") =>
            Fails /\ lexer' = Flushed(stack[1].pre)
      ]_vars

\* :sl :tb :im M: M imports K, K fails at :rt; the call returns the error
\* and the document holds the one slide that was open before :im.
C20_Witness ==
    /\ last.sym = "Rotation" /\ last.res = "Err" /\ last.depth = 3
    /\ result = "Err" /\ pc = "idle" /\ depth = 1
    /\ lexer.state = "Import" /\ lexer.slide = None
    /\ Kinds(lexer.slideshow.slides) = <<<<"Text">>>>

----------------------------------------------------------------------------
(* The tokenizer.                                                          *)

\* The char at index i of line is a colon that is not escaped: it is the
\* first char of the line or the char before it is no backslash.
UnescapedColon(line, i) ==
    line[i] = ":" /\ (i = 1 \/ line[i - 1] # "\\")

HasMarker(line) == \E i \in 1..Len(line) : UnescapedColon(line, i)

\* The tokens pushed for the line of 0-based index n.
TokensOfLine(n) ==
    SelectSeq(tokenizer_state.tokens, LAMBDA t : t.span.line = n)

\* The lines tokenizer has gone through.
LinesRead == 1..tokenizer_state.linenum

\* C21: every input line without an unescaped colon gives exactly one token;
\* its payload is the whole line, blanks and backslashes included, and it is
\* a Comment if the line starts with # and a TextLine otherwise.  An empty
\* line gives TextLine("").  When tokenizer returns it has gone through
\* every line.
C21_TokenizerRoundTrip ==
    /\ \A k \in LinesRead :
          LET line == lines(tokenizer_state.inp)[k]
              toks == TokensOfLine(k - 1)
          IN ~HasMarker(line) =>
                /\ Len(toks) = 1
                /\ toks[1].symbol.text = line
                /\ (toks[1].symbol.symbol = "Comment")
                      <=> (line # <<>> /\ line[1] = "#")
                /\ toks[1].symbol.symbol \in {"Comment", "TextLine"}
                /\ line = <<>> => toks[1].symbol = TextLine(<<>>)
    /\ tokenizer_state.pc = "done" =>
          tokenizer_state.linenum = Len(lines(tokenizer_state.inp))

\* The text "# \:" is one line and gives the one token Comment("# \:").
C21_Witness ==
    /\ tokenizer_state.pc = "done"
    /\ tokenizer_state.inp = <<"#", " ", "\\", ":">>
    /\ Len(tokenizer_state.tokens) = 1
    /\ tokenizer_state.tokens[1].symbol = Comment(<<"#", " ", "\\", ":">>)

\* C22: every line that starts with # is a comment: whatever else it
\* contains, tokenizer pushes the single token Comment(line) for it (which
\* read_tokens then skips).
C22_HashLineIsComment ==
    \A k \in LinesRead :
       LET line == lines(tokenizer_state.inp)[k]
           toks == TokensOfLine(k - 1)
       IN (line # <<>> /\ line[1] = "#") =>
             /\ Len(toks) = 1
             /\ toks[1].symbol = Comment(line)

\* The chars i..j of line are a maximal run of chars that are not blank.
IsRun(line, i, j) ==
    /\ i <= j
    /\ \A m \in i..j : ~is_whitespace(line[m])
    /\ i = 1 \/ is_whitespace(line[i - 1])
    /\ j = Len(line) \/ is_whitespace(line[j + 1])

Runs(line) ==
    {r \in (1..Len(line)) \X (1..Len(line)) : IsRun(line, r[1], r[2])}

\* The token of the run r of the line of index n: its text is the run and
\* its span the bytes the run takes in the line.
TokenOfRun(line, n, r) ==
    build_token(SubSeq(line, r[1], r[2]), n,
                len(SubSeq(line, 1, r[1] - 1)), len(SubSeq(line, 1, r[2])))

\* C23: a line with a directive marker gives exactly one token per maximal
\* run of non-blank chars, from left to right; the token's text is the run,
\* its span the byte range of the run and its line the 0-based index of the
\* line.  tokenizer gets through every such line.
C23_OneTokenPerRun ==
    /\ \A k \in LinesRead :
          LET line == lines(tokenizer_state.inp)[k]
              toks == TokensOfLine(k - 1)
          IN HasMarker(line) =>
                /\ Len(toks) = Cardinality(Runs(line))
                /\ {toks[m] : m \in 1..Len(toks)}
                      = {TokenOfRun(line, k - 1, r) : r \in Runs(line)}
                /\ \A a, b \in 1..Len(toks) :
                      a < b => toks[a].span.beg < toks[b].span.beg
    /\ tokenizer_state.pc # "panicked"

----------------------------------------------------------------------------
(* parse_text, call after call.                                            *)

----------------------------------------------------------------------------
(* read_tokens, slice after slice.                                         *)

\* The calls on the slices are over: one returned an error or panicked, or
\* the last slice was read.
SlicesRead ==
    /\ splits.run = 2
    /\ IF pc = "idle" THEN result = "Err" \/ splits.pos = Len(splits.text)
       ELSE pc = "panicked"

\* C25: a lexer that reads a token sequence in successive calls, cut where
\* no directive is parted from its arguments, ends with the result, the
\* state, the open slide and the document of a lexer that read the sequence
\* in one call.
C25_ReadTokensReentrant ==
    SlicesRead => Some(Reached) = splits.whole

\* :sl :tb "b" was read whole and then as :sl, :tb and "b" in three calls:
\* the slide is open with the text "b\n".
C25_Witness ==
    /\ SlicesRead
    /\ splits.text = <<Token("Slide"), Token("TextBuffer"), TextLine(<<"b">>)>>
    /\ splits.cuts = {1, 2}
    /\ result = "Ok" /\ lexer.state = "Text"
    /\ Unwrap(LastSection(lexer).sec_main).text = <<"b", "\n">>

----------------------------------------------------------------------------
(* Imports and termination.                                                *)

\* The slide files a token sequence imports.
ImportsOf(tokens) ==
    {tokens[i + 1].text :
       i \in {j \in 1..(Len(tokens) - 1) :
                /\ tokens[j].symbol = "Import"
                /\ tokens[j + 1].symbol = "String"
                /\ tokens[j + 1].text \in DOMAIN SlideFiles}}

\* The files reached from the files fs in the import graph.
RECURSIVE ReachedFrom(_, _)
ReachedFrom(fs, n) ==
    IF n = 0 THEN fs
    ELSE ReachedFrom(fs \cup UNION {ImportsOf(SlideFiles[f]) : f \in fs},
                     n - 1)

Reachable(tokens) ==
    ReachedFrom(ImportsOf(tokens), Cardinality(DOMAIN SlideFiles))

\* No file reached from the tokens is reached from itself.
Acyclic(tokens) ==
    \A f \in Reachable(tokens) : f \notin Reachable(SlideFiles[f])

\* The import of a file is under way or about to be made inside the import
\* of that same file.
Recursing ==
    \E j, k \in 1..depth :
       j < k /\ Importing(j) # None /\ Importing(j) = Importing(k)

----------------------------------------------------------------------------
(* Sections.                                                               *)

\* The kind of the body of a section.
BodyKind(sec) ==
    IF sec.sec_main = None THEN "None" ELSE Unwrap(sec.sec_main).kind

\* The body kinds of the sections of every slide of l, closed or open.
BodyKinds(l) ==
    LET slides == take(l).slides
    IN [i \in 1..Len(slides) |->
          [j \in 1..Len(slides[i].sections) |->
             BodyKind(slides[i].sections[j])]]

\* Every section of l1 is a section of l2 with the same kind of body.
KeepsBodies(l1, l2) ==
    LET a == BodyKinds(l1)
        b == BodyKinds(l2)
    IN /\ Len(a) <= Len(b)
       /\ \A i \in 1..Len(a) :
             /\ Len(a[i]) <= Len(b[i])
             /\ \A j \in 1..Len(a[i]) : a[i][j] = b[i][j]

\* C27: the section :tb creates has a Text body and the section :fg creates
\* a Figure body, and no step of any lexer changes the kind of the body of
\* a section that exists, in the open slide or in the document.
C27_BodyKindIsFixed ==
    [][/\ \A k \in 1..depth :
             k <= Len(stack') => KeepsBodies(stack[k].lexer, stack'[k].lexer)
       /\ (pc = "running" /\ Ready(top) /\ last'.res = "Ok"
            /\ Tok.symbol \in {"TextBuffer", "Figure"})
            => /\ Len(Sections(top'.lexer)) = Len(Sections(top.lexer)) + 1
               /\ BodyKind(LastSection(top'.lexer))
                     = IF Tok.symbol = "TextBuffer" THEN "Text" ELSE "Figure"
      ]_vars

\* :sl :fg B :rt 90 :tb: the rotated figure is still a figure, and the
\* text section comes after it.
C27_Witness ==
    /\ last.sym = "TextBuffer" /\ last.res = "Ok" /\ last.depth = 1
    /\ fed = 6
    /\ Len(Sections(lexer)) = 2
    /\ Sections(lexer)[1].sec_main
          = Some([kind |-> "Figure", path |-> <<"/", "B">>,
                  rotation |-> F32(90)])
    /\ BodyKind(Sections(lexer)[2]) = "Text"

----------------------------------------------------------------------------
(* :ge.                                                                    *)

\* C28: :ge is accepted in every state and takes no token after it; the
\* lexer changes in its state only, which becomes General: the open slide
\* and the document are as before.  A :tb that follows with a slide open
\* adds its section at the end of that slide.
C28_GenericOnlySetsState ==
    [][/\ Dispatch("Generic") =>
             Accepted([top.lexer EXCEPT !.state = "General"], 0)
       /\ (Dispatch("TextBuffer") /\ top.lexer.state = "General"
            /\ top.lexer.slide # None)
            => /\ last'.res = "Ok"
               /\ top'.lexer.slideshow = top.lexer.slideshow
               /\ SubSeq(Sections(top'.lexer), 1, Len(Sections(top.lexer)))
                     = Sections(top.lexer)
               /\ Len(Sections(top'.lexer)) = Len(Sections(top.lexer)) + 1
               /\ Unwrap(top'.lexer.slide).bg_color
                     = Unwrap(top.lexer.slide).bg_color
      ]_vars

\* :sl :tb "  " :ge :tb: the :tb after :ge added a second section to the
\* slide that :sl opened, and the first section kept its text.
C28_Witness ==
    /\ last.sym = "TextBuffer" /\ last.state = "General" /\ last.res = "Ok"
    /\ last.depth = 1
    /\ fed = 5
    /\ lexer.slideshow.slides = <<>>
    /\ Len(Sections(lexer)) = 2
    /\ BodyKind(Sections(lexer)[1]) = "Text"
    /\ Unwrap(Sections(lexer)[1].sec_main).text = <<" ", " ", "\n">>
    /\ BodyKind(Sections(lexer)[2]) = "Text"


----------------------------------------------------------------------------
(* The slideshow window.                                                   *)

\* The index of the last slide of a deck that has one.
LastSlide(w) == Len(w.slides) - 1

\* C29: with a deck that has slides, the index names one of them after
\* every call of set_slides, next_slide, prev_slide and present_slide;
\* next_slide on the last slide and prev_slide on the first leave it as
\* it is, and set_slides with a deck too short for the index takes it back
\* to the last slide of that deck.
C29_IndexStaysValid ==
    [][/\ window'.slides # <<>> => window'.idx <= LastSlide(window')
       /\ (window'.op = "next_slide" /\ window.slides # <<>>) =>
            /\ window'.pc = "ready"
            /\ window'.slides = window.slides
            /\ window'.idx = IF window.idx = LastSlide(window)
                              THEN window.idx ELSE window.idx + 1
       /\ (window'.op = "prev_slide" /\ window.slides # <<>>) =>
            /\ window'.pc = "ready"
            /\ window'.slides = window.slides
            /\ window'.idx = IF window.idx = 0 THEN 0 ELSE window.idx - 1
       /\ (window'.op = "set_slides" /\ window'.slides # <<>>) =>
            /\ window'.pc = "ready"
            /\ window'.idx = IF window.idx > LastSlide(window')
                              THEN LastSlide(window') ELSE window.idx
       /\ (window'.op = "present_slide" /\ window.slides # <<>>) =>
            /\ window'.pc = "ready"
            /\ window'.slides = window.slides
            /\ window'.idx = window.idx
            /\ window'.shown # None
            /\ window'.shown[1][1] = window.slides[window.idx + 1]
      ]_vars

\* set_slides took the index back from the third slide to the only slide of
\* a shorter deck.
C29_Witness ==
    /\ window.pc = "ready"
    /\ window.op = "set_slides"
    /\ Len(window.slides) = 1
    /\ window.before = 2
    /\ window.idx = 0

\* C30: without slides, next_slide, set_slides and present_slide end
\* without the underflow of `slides.len() - 1`, the index stays 0, and
\* present_slide shows one default slide.
C30_EmptyDeckIsSafe ==
    /\ window.pc # "panicked"
    /\ window.slides = <<>> => window.idx = 0
    /\ (window.op = "present_slide" /\ window.slides = <<DefaultSlide>>) =>
         window.shown = Some(<<DefaultSlide, DefaultSlide>>)

----------------------------------------------------------------------------
(* The slideshow window of windows/slideshow.rs.                           *)

\* C31: set_slide(idx) panics for every idx that is no index of the deck:
\* whenever it returns, the index of the window, which is then idx, names
\* one of the slides.
C31_SetSlideRejectsBadIndex ==
    (window.op = "set_slide" /\ window.pc = "ready") =>
        window.idx < Len(window.slides)

----------------------------------------------------------------------------
(* The timer window.                                                       *)

\* C33: the timer is Stopped or Running; timer_toggle takes Stopped to
\* Running and Running to Stopped; total_elapsed changes only when a run
\* is stopped, by the seconds of that run, or on reset; timer_stop on a
\* stopped timer adds 0; timer_reset leaves the timer Stopped with
\* total_elapsed = 0.
C33_TimerStateMachine ==
    [][/\ timer'.timer_status \in {"Stopped", "Running"}
       /\ timer'.op = "timer_toggle" =>
            /\ timer'.timer_status # timer.timer_status
            /\ timer.timer_status = "Stopped" =>
                 /\ timer'.since = timer.now
                 /\ timer'.total_elapsed = timer.total_elapsed
       /\ timer'.op \in {"timer_toggle", "timer_stop"}
          /\ timer.timer_status = "Running" =>
            /\ timer'.timer_status = "Stopped"
            /\ timer'.total_elapsed =
                 timer.total_elapsed + (timer.now - timer.since)
       /\ timer'.op = "timer_stop" /\ timer.timer_status = "Stopped" =>
            /\ timer'.timer_status = "Stopped"
            /\ timer'.total_elapsed = timer.total_elapsed
       /\ timer'.op = "timer_reset" =>
            /\ timer'.timer_status = "Stopped"
            /\ timer'.total_elapsed = 0
       /\ timer'.op \in {"tick", "timer_start", "update"} =>
            timer'.total_elapsed = timer.total_elapsed
      ]_vars

\* A second run was stopped: the seconds of both runs are counted, and the
\* time between the runs is not.
C33_Witness ==
    /\ timer.op = "timer_toggle"
    /\ timer.timer_status = "Stopped"
    /\ timer.since > 0
    /\ timer.total_elapsed > timer.now - timer.since
    /\ timer.total_elapsed < timer.now

\* C34: get_time splits the seconds T into hours, minutes and seconds with
\* seconds < 60, minutes < 60 and hours * 3600 + minutes * 60 + seconds = T
\* for T below 255 hours; from 255 hours on the hours shown are 255.
C34_GetTimeSplitsAndCaps ==
    (timer.op = "update") =>
        LET T == timer.total_elapsed + Elapsed(timer)
            hms == timer.shown[1]
        IN /\ hms[2] < 60
           /\ hms[3] < 60
           /\ T < 255 * 3600 => hms[1] * 3600 + hms[2] * 60 + hms[3] = T
           /\ T >= 255 * 3600 => hms[1] = 255

----------------------------------------------------------------------------
(* The crossterm context.                                                  *)

\* C39: with a deck that has slides, slide_id names one of them after
\* every set_slides and every key n and p that finds it so, and render
\* finds a slide to draw.
C39_SlideIdStaysValid ==
    [][(/\ context.slides # <<>>
        /\ context.slide_id < Len(context.slides)
        /\ context'.slides # <<>>) =>
           /\ context'.pc = "ready"
           /\ context'.slide_id < Len(context'.slides)
           /\ context'.op = "render" => context'.drawn # None
      ]_vars

----------------------------------------------------------------------------
(* The line-by-line driver.                                                *)

\* C35: create_slides gives the lines to parse_line in the order of the
\* file; the first line on which parse_line fails ends the parse, no line
\* after it is read, and the error returned begins with the number of that
\* line, counted from 1.
C35_FirstFailingLine ==
    [][/\ \A i \in 1..Len(driver'.applied) :
            /\ driver'.applied[i] = i
            /\ i < Len(driver'.applied) => driver'.returned[i] = "Ok"
       /\ driver.pc # "reading" => driver' = driver
       /\ (Len(driver'.applied) > Len(driver.applied)
           /\ driver'.returned[Len(driver'.applied)] \notin {"Ok", "Panic"}) =>
            /\ driver'.pc = "failed"
            /\ driver'.result =
                 Some(<<"Line", Len(driver'.applied),
                        driver'.returned[Len(driver'.applied)]>>)
       /\ (driver'.pc = "failed" /\ driver'.result # Some(<<"io">>)) =>
            /\ driver'.result[1][1] = "Line"
            /\ driver'.result[1][2] = Len(driver'.applied)
            /\ driver'.returned[Len(driver'.applied)] = driver'.result[1][3]
       /\ driver'.pc = "done" =>
            /\ Len(driver'.applied) = Len(driver.lines)
            /\ \A i \in 1..Len(driver'.applied) : driver'.returned[i] = "Ok"
      ]_vars

\* The second of three lines failed after the first was applied.
C35_Witness ==
    /\ driver.pc = "failed"
    /\ Len(driver.lines) = 3
    /\ driver.applied = <<1, 2>>
    /\ driver.result =
         Some(<<"Line", 2, "Please create a slide first.">>)
    /\ driver.tp.which_section = "Text"

----------------------------------------------------------------------------
(* The threads of main.                                                    *)

\* The parses that made a document, in their order.
RECURSIVE Successes(_, _)
Successes(parsed, n) ==
    IF n = 0 THEN <<>>
    ELSE IF parsed[n] = "Ok" THEN Append(Successes(parsed, n - 1), n)
    ELSE Successes(parsed, n - 1)

\* The last documents sent, as many as wait in the channel.
LastSent(t) ==
    LET sent == Successes(t.parsed, Len(t.parsed))
    IN SubSeq(sent, Len(sent) - Len(t.send_slides_rx) + 1, Len(sent))

\* C32: a parse that fails leaves the slides shown as they are and does
\* not stop the parser thread: every request is parsed once, only the
\* parses that succeed send a document, the documents come to the event
\* loop in the order of the requests, and the requests after a failure are
\* still served.
C32_FailedReloadKeepsSlides ==
    /\ threads.parser = "waiting"
    /\ threads.watcher = "waiting"
    /\ Len(threads.parsed) + threads.request_update_rx = threads.requested
    /\ threads.requested + threads.watcher_rx = threads.changes + 1
    /\ LastSent(threads) = threads.send_slides_rx
    /\ threads.shown # 0 => threads.parsed[threads.shown] = "Ok"
    /\ \A i \in 1..Len(threads.send_slides_rx) :
         threads.shown < threads.send_slides_rx[i]

----------------------------------------------------------------------------
(* The lexer between calls.                                                *)

\* Every call of read_tokens on the top-level lexer so far returned Ok.
AllCallsOk == pc = "idle" /\ result = "Ok" /\ ~hist.err

\* C36: after read_tokens calls that all returned Ok, the states Slide,
\* Text and Figure go with an open slide, whose last section is a text in
\* state Text and a figure in state Figure, and the states None and Import
\* go with no open slide.
C36_StateMatchesSlide ==
    AllCallsOk =>
        /\ lexer.state \in {"Slide", "Text", "Figure"} => IsSome(lexer.slide)
        /\ lexer.state = "Text" =>
             /\ HasLastSection(lexer)
             /\ BodyKind(LastSection(lexer)) = "Text"
        /\ lexer.state = "Figure" =>
             /\ HasLastSection(lexer)
             /\ BodyKind(LastSection(lexer)) = "Figure"
        /\ lexer.state \in {"None", "Import"} => ~IsSome(lexer.slide)

\* A figure was added after a text.
C36_Witness ==
    /\ AllCallsOk
    /\ lexer.state = "Figure"
    /\ Len(Sections(lexer)) = 2
    /\ BodyKind(Sections(lexer)[1]) = "Text"
    /\ BodyKind(Sections(lexer)[2]) = "Figure"
    /\ last.pending = 1
    /\ fed = 4

----------------------------------------------------------------------------
(* Directives that fail.                                                   *)

\* The top-level lexer is about to dispatch one of :ps, :sz, :rt, :fc, :bc.
DispatchesAttribute ==
    /\ depth = 1
    /\ \/ Dispatch("Position")
       \/ Dispatch("Size")
       \/ Dispatch("Rotation")
       \/ Dispatch("Fontcolor")
       \/ Dispatch("BackGroundColor")

\* C37: when :ps, :sz, :rt, :fc or :bc returns an error, the state of the
\* lexer, its open slide and the document are as they were before it.
C37_FailedAttributeChangesNothing ==
    [][(DispatchesAttribute /\ last'.res = "Err") =>
         /\ pc' = "idle" /\ result' = "Err"
         /\ lexer'.state = lexer.state
         /\ lexer'.slide = lexer.slide
         /\ lexer'.slideshow = lexer.slideshow
         /\ take(lexer') = take(lexer)
      ]_vars

\* :fc failed in state Text on an argument that gives no color, after a
\* section was made.
C37_Witness ==
    /\ last.sym = "Fontcolor"
    /\ last.res = "Err"
    /\ last.depth = 1
    /\ last.state = "Text"
    /\ last.pending = 1
    /\ pc = "idle" /\ result = "Err"
    /\ lexer.state = "Text"
    /\ HasLastSection(lexer)

----------------------------------------------------------------------------
(* What an import brings.                                                  *)

\* The defaults of a document: background, font color, font size, fonts.
Defaults(slideshow) ==
    <<slideshow.bg_col, slideshow.font_col, slideshow.font_size,
      slideshow.fonts>>

\* The nested parse of an :im returns Ok to the frame under it.
ImportReturns ==
    /\ pc = "running" /\ depth > 1 /\ top.tokens = <<>>
    /\ Len(stack') = depth - 1

\* C38: :im takes the slides of the imported file only: the defaults of
\* the importing document are after the import what they were before it,
\* whatever the imported file sets with :ge.
C38_ImportKeepsDefaults ==
    [][ImportReturns =>
         /\ last'.sym = "Import" /\ last'.res = "Ok"
         /\ Defaults(stack'[depth - 1].lexer.slideshow) =
              Defaults(stack[depth - 1].pre.slideshow)
      ]_vars

\* The document had set its font color to red, then imported B.txt, which
\* sets another in its :ge.
C38_Witness ==
    /\ last.sym = "Import" /\ last.res = "Ok" /\ last.depth = 1
    /\ lexer.state = "Import"
    /\ lexer.slideshow.font_col = Some(get_color(<<String(Red)>>).color)
    /\ Len(lexer.slideshow.slides) = 2

----------------------------------------------------------------------------
(* The skip counts.                                                        *)

\* The skip counts a handler may return with Ok.
Skips(sym) ==
    CASE sym \in {"Generic", "Slide", "TextBuffer", "TextLine", "Comment"} ->
           {0}
      [] sym \in {"Figure", "Import", "Rotation"} -> {1}
      [] sym = "Position" -> {2}
      [] sym = "Size" -> {1, 2}
      [] sym \in {"Fontcolor", "BackGroundColor"} -> {1, 4}
      [] OTHER -> {}

\* C40: the skip count a handler returns with Ok is one of those of its
\* directive and at most the number of tokens after the directive, so
\* that rem[skip..] is in range and every turn of the loop of read_tokens
\* takes at least one token from the slice, which therefore runs out.
C40_SkipWithinSlice ==
    [][(pc = "running" /\ Ready(top)) =>
         LET out == Handle(top.lexer, Tok, Rem)
         IN /\ out.res = "Ok" =>
                 /\ out.skip \in Skips(Tok.symbol)
                 /\ out.skip <= Len(Rem)
            /\ (out.res = "Ok" /\ Len(stack') = depth) =>
                 /\ last'.res = "Ok"
                 /\ pc' = "running"
                 /\ top'.tokens = SubSeq(Rem, out.skip + 1, Len(Rem))
                 /\ Len(top'.tokens) < Len(top.tokens)
      ]_vars

\* :fc took four numbers, the last tokens of a slice that has ended.
C40_Witness ==
    /\ pc = "running"
    /\ last.sym = "Fontcolor" /\ last.res = "Ok"
    /\ last.pending = 4
    /\ top.tokens = <<>> /\ top.ended
    /\ depth = 1

=============================================================================
